---- MODULE Spec2Model ----
(* SuiFlow: the USSD session state machine, the PIN guard with its         *)
(* failed-attempt counter, and the transaction bookkeeping around the      *)
(* ledger call, as implemented by api/src/routes/ussd.js,                  *)
(* api/src/routes/user.js, api/src/routes/transaction.js,                  *)
(* api/src/middleware/auth.js and api/src/services/database.js.            *)
(*                                                                         *)
(* A request is a slot of Reqs.  Code between two awaits runs atomically   *)
(* (one JavaScript event-loop turn); the awaits that separate the read of  *)
(* the account, the write of the counter, the balance query, the ledger    *)
(* call and the insertion of the transaction row are separate steps, so    *)
(* requests interleave there.  The rate limiter in front of the USSD       *)
(* webhook and the Move package (suiflow_wallet, suiflow_admin) have       *)
(* specifications of their own.                                            *)
EXTENDS Integers, Sequences, FiniteSets, TLC

\* ------------------------------------------------------------------------
\* Bounds of the model
\* ------------------------------------------------------------------------

\* failedAttempts has no upper limit in the schema; wrong-PIN requests are
\* only started while the stored counter is below this cap.
MaxCounter == 4

\* Number of transfer attempts (ledger calls) in one behaviour.
MaxTransfers == 1

\* Number of transfer attempts in a behaviour in which the SendPin request
\* of one send dialogue is delivered more than once.
MaxResends == 2

\* The clock stops at this minute.
MaxNow == 12

\* Where the rate limiter reads the clock, time is followed in ticks of
\* twenty seconds and stops at this tick.
MaxClock == 5

\* Requests of one phone that the rate limiter counts in one entry.
MaxRequestCount == 12

\* Largest balance a SuiFlowWallet object holds, in MIST.
MaxBalance == 2

\* ------------------------------------------------------------------------
\* Program constants
\* ------------------------------------------------------------------------

MAX_FAILED_ATTEMPTS == 3

\* Largest amount a transfer may carry, in SUI
MAX_AMOUNT == 1000000

\* Idle time after which the sweep removes a session, in minutes
SESSION_TIMEOUT == 10

\* Ticks of twenty seconds in a minute
TicksPerMinute == 3

\* Window of the USSD rate limiter: one minute, in ticks of twenty seconds
RATE_LIMIT_WINDOW == 3

\* Requests of one phone the limiter lets through per window
RATE_LIMIT_MAX_REQUESTS == 10

MAIN_MENU == "main_menu"
REGISTER_NAME == "register_name"
REGISTER_PIN == "register_pin"
REGISTER_CONFIRM_PIN == "register_confirm_pin"
SEND_PHONE == "send_phone"
SEND_AMOUNT == "send_amount"
SEND_PIN == "send_pin"
BALANCE_PIN == "balance_pin"

PENDING == "pending"
SUCCESS == "success"
FAILED == "failed"

\* ------------------------------------------------------------------------
\* Universe of the model
\* ------------------------------------------------------------------------

Phones == {"+100", "+200", "+300"}

\* Subscribers that have an account from the start.
Registered0 == {"+100", "+200"}

\* Subscribers that send requests; the others only receive transfers.
Callers == {"+100"}

\* Concurrent request handlers (express serves each request as its own
\* chain of promise continuations).
Reqs == {1, 2}

\* The PIN each subscriber registered with.
PinOf(p) == IF p = "+100" THEN "1234" ELSE "4321"

\* Tokens a subscriber may type at each step.
MenuInputs == {"", "0", "1", "2", "3", "9"}
PhoneInputs == {"", "abc", "+100", "+200", "+300"}
NameInputs == {"", "a", "Jane Doe", "J4ne"}
AmountInputs == {"", "abc", "0", "-5", "2", "2abc", "0.0000001", "0.000001",
                 "1000000", "2000000"}

\* The amounts typed where requests of other kinds arrive as well.
FewAmountInputs == {"", "abc", "2", "2abc", "1000000", "2000000"}
PinInputs == {"12", "1234", "4321"}

\* Values the ledger may report as a balance (SUI).
Balances == {0, 5}

\* Error texts the ledger client may report.
LedgerErrors == {"Insufficient balance", "Transaction failed"}

\* Addresses createUserWallet may come up with for a new key pair.
NewAddresses == {"0x3a5f7c9e1b2d", "0x3a5f7c9e8888", "0x77e0d1c2b3a4"}

\* Names and addresses of the accounts that exist at the start.
NameOf(p) == IF p = "+100" THEN "Alice" ELSE "Bob"
AddressOf(p) == IF p = "+100" THEN "0x100aaaaaaaaa" ELSE "0x200bbbbbbbbb"

\* Names and PINs a client may put in the body of POST /user/new.
RestNames == {"Jane Doe", "Joe"}
RestPins == {"1234", "4321"}

\* 0.02 SUI, the amount new accounts are funded with
NEW_USER_FUNDING_AMOUNT == [sui |-> 0, frac |-> 200000]

\* a row that is absent: getUser resolves null
NoUser == [registered |-> FALSE, fullName |-> "", suiAddress |-> "",
           walletObjectId |-> "", pinHash |-> <<"", "">>, failedAttempts |-> 0]

\* Object id of the SuiFlowWallet an account may refer to
WalletOf(p) == IF p = "+100" THEN "0xw100" ELSE "0xw200"
\* A decimal number: whole SUI and a fraction in units of 0.0000001 SUI.
\* frac = -1 marks NaN.
Num(sui, frac) == [sui |-> sui, frac |-> frac]
Whole(n) == Num(n, 0)
NaN == Num(0, -1)
IsNaN(a) == a.frac = -1
Less(a, b) == a.sui < b.sui \/ (a.sui = b.sui /\ a.frac < b.frac)

\* 0.000001 SUI
MIN_AMOUNT == Num(0, 10)

\* Amounts a REST client may put in the body of POST /transaction/new.
RestAmounts == {Num(0, 1), Whole(2), Whole(2000000)}

\* `{}`: a key that is absent reads as "" (a text) or as Whole(0) (amount)
EmptyData == [fullName |-> "", pin |-> "", receiverPhone |-> "", amount |-> Whole(0)]
NoSession == [state |-> "none", data |-> EmptyData, lastActivity |-> 0]
NoResp == [type |-> "none", body |-> "none", n |-> 0, detail |-> ""]
NoResult == [status |-> "none", digest |-> 0, error |-> ""]

IdleReq ==
  [pc |-> "idle", kind |-> "none", phone |-> "", pin |-> "",
   fa |-> 0, attached |-> FALSE, data |-> EmptyData, input |-> "",
   balance |-> 0 - 1,
   attempt |-> 0, result |-> NoResult, address |-> "", via |-> ""]

\* Addresses that send transactions to the contracts: the publisher of the
\* package and a user.
Addresses == {"publisher", "user"}

\* Object ids of SuiFlowWallet objects
WalletIds == {1, 2}

\* an object id under which no wallet has been created
NoWallet == [exists |-> FALSE, holder |-> "", owner_address |-> "",
             balance |-> 0, is_frozen |-> FALSE]
NoCall == [function |-> "none", sender |-> "", args |-> << >>, cap |-> FALSE,
           abort |-> ""]

\* no entry of the limiter's map
NoEntry == [count |-> 0, timestamp |-> 0 - 1]
NoPhone == ""

NoOut == [phone |-> "", resp |-> NoResp]

VARIABLES
  users,          \* users table: phone -> row
  ussdSessions,   \* the in-memory session map: phone -> session or NoSession
  transactions,   \* transactions table: sequence of rows, id = index
  tokens,         \* subscribers holding a JWT issued by /login
  reqs,           \* in-flight requests
  out,            \* the response sent by the last step, if it sent one
  nextAttempt,    \* history: number of transfer attempts made so far
  now,            \* Date.now(), in minutes
  swept,          \* the sweep of the current minute has run
  tick,           \* Date.now(): ticks of twenty seconds into the minute now
  requestCounts,  \* the limiter's map: phone -> {count, timestamp} or NoEntry
  admitted,       \* the phone whose request the limiter just passed on
  admittedAt,     \* history: per phone, the requests the limiter let
                  \* through at this tick and at the ticks before it
  wallets,        \* on chain: the SuiFlowWallet objects
  lastCall        \* on chain: the Move call of the last transaction

vars == <<users, ussdSessions, transactions, tokens, reqs, out, nextAttempt,
          now, swept, tick, requestCounts, admitted, admittedAt,
          wallets, lastCall>>

\* ------------------------------------------------------------------------
\* Pure helpers
\* ------------------------------------------------------------------------

\* PBKDF2 over "pin:phone" with a fixed salt: deterministic and (for the
\* model) injective in the pair.
\* The mutated hash: the phone number is left out of the hashed text
hashPinOnly(pin, phone) == <<pin, "+">>

hashPinPhone(pin, phone) == <<pin, phone>>

verifyPinPhone(submittedPin, submittedPhone, storedHash) ==
  IF submittedPin = "" \/ submittedPhone = "" \/ storedHash = <<"", "">>
  THEN FALSE
  ELSE hashPinPhone(submittedPin, submittedPhone) = storedHash

\* The mutated PIN pattern: any text passes
IsFourDigitsAny(tok) == TRUE

\* /^\d{4}$/ on the tokens of PinInputs
IsFourDigits(tok) == tok \in {"1234", "4321", "0000"}

\* /^\+?[1-9]\d{1,14}$/ on the tokens of PhoneInputs
IsPhoneFormat(tok) == tok \in {"+100", "+200", "+300"}

\* parseFloat on the tokens of AmountInputs: the longest numeric prefix of
\* the text, NaN when there is none.
ParseFloat(tok) ==
  CASE tok = "0" -> Whole(0)
    [] tok = "-5" -> Whole(0 - 5)
    [] tok = "2" -> Whole(2)
    [] tok = "2abc" -> Whole(2)
    [] tok = "0.0000001" -> Num(0, 1)
    [] tok = "0.000001" -> Num(0, 10)
    [] tok = "1000000" -> Whole(1000000)
    [] tok = "2000000" -> Whole(2000000)
    [] OTHER -> NaN

\* userInput.trim().length >= 2 and /^[a-zA-Z\s]+$/ on the tokens of
\* NameInputs
IsLongEnough(tok) == tok \in {"Jane Doe", "J4ne"}

\* The mutated pattern: every text passes as letters and spaces
IsLettersAndSpacesAny(tok) == TRUE

IsLettersAndSpaces(tok) == tok \in {"a", "Jane Doe"}

Resp(type, body) == [type |-> type, body |-> body, n |-> 0, detail |-> ""]

\* a response whose text carries a number (remaining attempts, a balance)
RespN(type, body, n) == [type |-> type, body |-> body, n |-> n, detail |-> ""]

\* a response whose text carries an error message
RespD(type, body, detail) == [type |-> type, body |-> body, n |-> 0, detail |-> detail]

getSession(sessions, p) ==
  IF sessions[p] = NoSession
  THEN [sessions EXCEPT ![p] = [state |-> MAIN_MENU, data |-> EmptyData,
                                lastActivity |-> now]]
  ELSE [sessions EXCEPT ![p].lastActivity = now]

\* The mutated update: session.data is replaced, not merged
updateSessionReplacing(sessions, p, newState, data) ==
  LET s == getSession(sessions, p)
  IN [s EXCEPT ![p] = [state |-> newState,
                       data |-> [k \in DOMAIN EmptyData |->
                                   IF k \in DOMAIN data THEN data[k]
                                   ELSE EmptyData[k]],
                       lastActivity |-> now]]

updateSession(sessions, p, newState, data) ==
  LET s == getSession(sessions, p)
  IN [s EXCEPT ![p] = [state |-> newState,
                       data |-> [k \in DOMAIN s[p].data |->
                                   IF k \in DOMAIN data THEN data[k]
                                   ELSE s[p].data[k]],
                       lastActivity |-> now]]

clearSession(sessions, p) == [sessions EXCEPT ![p] = NoSession]

getUser(p) == IF p \in Phones THEN users[p] ELSE NoUser

\* The mutated UPDATE: the WHERE clause is missing, every row is written
updateUserEverybody(p, n) ==
  [q \in Phones |-> IF users[q].registered
                    THEN [users[q] EXCEPT !.failedAttempts = n]
                    ELSE users[q]]

\* updateUser(phone, { failedAttempts: n })
updateUser(p, n) == [users EXCEPT ![p].failedAttempts = n]

\* addTransaction: INSERT, the new row's id is its position
addTransaction(rows, row) == Append(rows, row)

Row(sender, receiver, amount, hash, status, err, attempt) ==
  [senderPhone |-> sender, receiverPhone |-> receiver, amount |-> amount,
   txHash |-> hash, status |-> status, errorMessage |-> err,
   attempt |-> attempt, initial |-> status]

\* ------------------------------------------------------------------------
\* Initial state
\* ------------------------------------------------------------------------

\* The users table at the start: the accounts of Registered0, those of
\* withWallet referring to a SuiFlowWallet object.
InitialUsers(withWallet) ==
  [p \in Phones |->
     IF p \in Registered0
     THEN [registered |-> TRUE, fullName |-> NameOf(p),
           suiAddress |-> AddressOf(p),
           walletObjectId |-> IF p \in withWallet THEN WalletOf(p) ELSE "",
           pinHash |-> hashPinPhone(PinOf(p), p),
           failedAttempts |-> 0]
     ELSE NoUser]

\* The state of the server after its start, whatever the users table holds
Started ==
  /\ ussdSessions = [p \in Phones |-> NoSession]
  /\ transactions = <<>>
  /\ tokens = {}
  /\ reqs = [r \in Reqs |-> IdleReq]
  /\ out = NoOut
  /\ nextAttempt = 0
  /\ now = 0
  /\ swept = TRUE
  /\ tick = 0
  /\ requestCounts = [p \in Phones |-> NoEntry]
  /\ admitted = NoPhone
  /\ admittedAt = [p \in Phones |-> [k \in 1..RATE_LIMIT_WINDOW |-> 0]]
  /\ wallets = [w \in WalletIds |-> NoWallet]
  /\ lastCall = NoCall

\* No row of the table created by initDB has a walletObjectId.
Init ==
  /\ users = InitialUsers({})
  /\ Started

\* A users table in which some accounts refer to a SuiFlowWallet object
InitRoute ==
  /\ \E withWallet \in SUBSET Registered0 : users = InitialUsers(withWallet)
  /\ Started

\* A new request takes the lowest free slot.
FreeSlot(r) ==
  /\ reqs[r].pc = "idle"
  /\ \A q \in Reqs : q < r => reqs[q].pc # "idle"

\* handleSendPin keeps a reference to the session object it got at entry
\* and reads session.data through it after each await (attached).  When
\* the object is removed from the map nobody can change it any more: the
\* request keeps the data the object had at that moment.
Detach(rq) ==
  [x \in Reqs |->
     IF rq[x].attached /\ ussdSessions'[rq[x].phone] = NoSession
     THEN [rq[x] EXCEPT !.attached = FALSE,
                        !.data = ussdSessions[rq[x].phone].data]
     ELSE rq[x]]

\* session.data as the request in slot r reads it now
SessionData(r) ==
  IF reqs[r].attached THEN ussdSessions[reqs[r].phone].data ELSE reqs[r].data

\* What no request handler touches: the clock, the sweep timer and the map
\* of the rate limiter.  A handler that runs has taken over from the
\* limiter.
Handled ==
  /\ admitted' = NoPhone
  /\ UNCHANGED <<now, swept, tick, requestCounts, admittedAt, wallets, lastCall>>

\* res.send(resp): the request of subscriber p in slot r is over.
Reply(r, p, resp) ==
  /\ reqs' = Detach([reqs EXCEPT ![r] = IdleReq])
  /\ out' = [phone |-> p, resp |-> resp]
  /\ Handled

\* the request in slot r continues as q after an await
Await(r, q) ==
  /\ reqs' = Detach([reqs EXCEPT ![r] = q])
  /\ out' = NoOut
  /\ Handled

\* State of the subscriber's session as the webhook sees it after getSession
StateOf(p) == getSession(ussdSessions, p)[p].state

\* Transfer attempts that in-flight requests may still make
PendingAttempts ==
  Cardinality({q \in Reqs : reqs[q].kind \in {"ussd_send", "txnew"}
                             /\ reqs[q].pc \in {"verify", "balance"}})

\* Fewer than cap transfer attempts have been made or may still be made.
MayTransferBelow(cap) == nextAttempt + PendingAttempts < cap

MayTransfer == MayTransferBelow(MaxTransfers)

\* ------------------------------------------------------------------------
\* USSD webhook: steps that finish within one event-loop turn
\* ------------------------------------------------------------------------

\* Text of the history screen (option 3 of the main menu)
HistoryBody(p) ==
  IF \E i \in 1..Len(transactions) :
        transactions[i].senderPhone = p \/ transactions[i].receiverPhone = p
  THEN "Recent Transactions"
  ELSE "No transactions found"

\* The mutated test: the menu of an account is served to everybody
HasAccountAlways(user) == TRUE

\* `if (user)` on what getUser resolved to
HasAccount(user) == user.registered

handleMainMenu(r, p, userInput) ==
  /\ FreeSlot(r)
  /\ StateOf(p) = MAIN_MENU
  /\ \E lookupOk \in BOOLEAN :
     LET s1 == getSession(ussdSessions, p)
         user == getUser(p)
     IN IF ~lookupOk
        THEN /\ ussdSessions' = clearSession(s1, p)
             /\ Reply(r, p, Resp("END", "Sorry, there was an error"))
        ELSE IF userInput = ""
        THEN /\ ussdSessions' = updateSession(s1, p, MAIN_MENU, << >>)
             /\ Reply(r, p, Resp("CON", IF user.registered THEN "Welcome menu"
                                                               ELSE "Welcome not registered"))
        ELSE IF HasAccount(user)
        THEN CASE userInput = "1" ->
                    /\ ussdSessions' = updateSession(s1, p, SEND_PHONE, << >>)
                    /\ Reply(r, p, Resp("CON", "Enter recipient"))
               [] userInput = "2" ->
                    /\ ussdSessions' = updateSession(s1, p, BALANCE_PIN, << >>)
                    /\ Reply(r, p, Resp("CON", "Enter PIN"))
               [] userInput = "3" ->
                    /\ ussdSessions' = clearSession(s1, p)
                    /\ \E dbOk \in BOOLEAN :
                         Reply(r, p, Resp("END", IF dbOk THEN HistoryBody(p)
                                                     ELSE "Error getting transaction history"))
               [] userInput = "0" ->
                    /\ ussdSessions' = clearSession(s1, p)
                    /\ Reply(r, p, Resp("END", "Thank you"))
               [] OTHER ->
                    /\ ussdSessions' = s1
                    /\ Reply(r, p, Resp("CON", "Invalid option"))
        ELSE CASE userInput = "1" ->
                    /\ ussdSessions' = updateSession(s1, p, REGISTER_NAME, << >>)
                    /\ Reply(r, p, Resp("CON", "Enter your full name"))
               [] userInput = "0" ->
                    /\ ussdSessions' = clearSession(s1, p)
                    /\ Reply(r, p, Resp("END", "Thank you for your interest"))
               [] OTHER ->
                    /\ ussdSessions' = s1
                    /\ Reply(r, p, Resp("CON", "Invalid option"))
  /\ UNCHANGED <<users, transactions, tokens, nextAttempt>>

handleRegisterName(r, p, userInput) ==
  /\ FreeSlot(r)
  /\ StateOf(p) = REGISTER_NAME
  /\ LET s1 == getSession(ussdSessions, p)
     IN IF userInput = "" \/ ~IsLongEnough(userInput)
        THEN /\ ussdSessions' = s1
             /\ Reply(r, p, Resp("CON", "Please enter a valid name"))
        ELSE IF ~IsLettersAndSpaces(userInput)
        THEN /\ ussdSessions' = s1
             /\ Reply(r, p, Resp("CON", "Name can only contain letters and spaces"))
        ELSE /\ ussdSessions' = updateSession(s1, p, REGISTER_PIN,
                                               [fullName |-> userInput])
             /\ Reply(r, p, Resp("CON", "Create a 4-digit PIN"))
  /\ UNCHANGED <<users, transactions, tokens, nextAttempt>>

handleRegisterPin(r, p, userInput) ==
  /\ FreeSlot(r)
  /\ StateOf(p) = REGISTER_PIN
  /\ LET s1 == getSession(ussdSessions, p)
     IN IF ~IsFourDigits(userInput)
        THEN /\ ussdSessions' = s1
             /\ Reply(r, p, Resp("CON", "PIN must be exactly 4 digits"))
        ELSE /\ ussdSessions' = updateSession(s1, p, REGISTER_CONFIRM_PIN,
                                               [pin |-> userInput])
             /\ Reply(r, p, Resp("CON", "Confirm your 4-digit PIN"))
  /\ UNCHANGED <<users, transactions, tokens, nextAttempt>>

\* The mutated INSERT: the fullName column is left empty
registerUserNameless(p, fullName, suiAddress, pinHash) ==
  [users EXCEPT ![p] = [registered |-> TRUE, fullName |-> "",
                        suiAddress |-> suiAddress, walletObjectId |-> "",
                        pinHash |-> pinHash, failedAttempts |-> 0]]

\* registerUser: INSERT INTO users; failedAttempts takes its default 0.
registerUser(p, fullName, suiAddress, pinHash) ==
  [users EXCEPT ![p] = [registered |-> TRUE, fullName |-> fullName,
                        suiAddress |-> suiAddress, walletObjectId |-> "",
                        pinHash |-> pinHash, failedAttempts |-> 0]]

\* The mutated constraint check: the table accepts every row
ViolatesUniqueNever(p, suiAddress) == FALSE

\* The INSERT violates PRIMARY KEY (phone) or UNIQUE (suiAddress).
ViolatesUnique(p, suiAddress) ==
  \/ users[p].registered
  \/ \E q \in Phones : users[q].registered /\ users[q].suiAddress = suiAddress

\* walletInfo.address.slice(0, 10)
Slice10(address) ==
  CASE address = "0x3a5f7c9e1b2d" -> "0x3a5f7c9e"
    [] address = "0x3a5f7c9e8888" -> "0x3a5f7c9e"
    [] address = "0x77e0d1c2b3a4" -> "0x77e0d1c2"
    [] OTHER -> address

\* createUserWallet: the address of a new key pair is one nobody has
IsFreshAddress(a) ==
  /\ \A q \in Phones : users[q].suiAddress # a
  /\ \A x \in Reqs : reqs[x].address # a

\* The confirmation step up to `await getUser`: fullName and pin are
\* copied out of session.data before the await.
handleRegisterConfirmPin(r, p, userInput) ==
  /\ FreeSlot(r)
  /\ StateOf(p) = REGISTER_CONFIRM_PIN
  /\ LET s1 == getSession(ussdSessions, p)
         session == s1[p]
     IN IF userInput = "" \/ userInput # session.data.pin
        THEN /\ ussdSessions' = updateSession(s1, p, REGISTER_PIN,
                                               [fullName |-> session.data.fullName])
             /\ Reply(r, p, Resp("CON", "PINs do not match"))
        ELSE /\ ussdSessions' = s1
             /\ Await(r, [IdleReq EXCEPT !.pc = "reg_lookup",
                                         !.kind = "ussd_register",
                                         !.phone = p,
                                         !.pin = session.data.pin,
                                         !.data = session.data])
  /\ UNCHANGED <<users, transactions, tokens, nextAttempt>>

\* POST /user/new up to `await getUser`; the body has passed
\* validateRequest(registerUserSchema).
UserNew(r, p, fullName, pin) ==
  /\ FreeSlot(r)
  /\ UNCHANGED ussdSessions
  /\ Await(r, [IdleReq EXCEPT !.pc = "reg_lookup",
                              !.kind = "rest_register",
                              !.phone = p,
                              !.pin = pin,
                              !.data = [EmptyData EXCEPT !.fullName = fullName,
                                                         !.pin = pin]])
  /\ UNCHANGED <<users, transactions, tokens, nextAttempt>>

\* What a registration answers: over USSD the session ends with it
RegisterReply(r, ussdResp, restResp) ==
  LET rq == reqs[r]
  IN IF rq.kind = "ussd_register"
     THEN /\ ussdSessions' = clearSession(ussdSessions, rq.phone)
          /\ Reply(r, rq.phone, ussdResp)
     ELSE /\ UNCHANGED ussdSessions
          /\ Reply(r, rq.phone, restResp)

\* `await getUser` of a registration resolves (or rejects: lookupOk =
\* FALSE); the wallet is created and the INSERT is sent.
RegisterLookup(r) ==
  /\ reqs[r].pc = "reg_lookup"
  /\ LET rq == reqs[r]
     IN \E lookupOk \in BOOLEAN :
          IF ~lookupOk
          THEN RegisterReply(r, Resp("END", "Registration failed. Try again later"),
                                Resp("500", "Failed to register user"))
          ELSE IF getUser(rq.phone).registered
          THEN RegisterReply(r, Resp("END", "Phone number already registered"),
                                Resp("409", "User with this phone number already exists"))
          ELSE /\ UNCHANGED ussdSessions
               /\ \E a \in NewAddresses :
                    /\ IsFreshAddress(a)
                    /\ Await(r, [rq EXCEPT !.pc = "reg_insert", !.address = a])
  /\ UNCHANGED <<users, transactions, tokens, nextAttempt>>

\* `await registerUser` settles: the INSERT is applied unless it violates a
\* constraint or the database fails (dbOk = FALSE).  After the INSERT
\* fundNewUserAccount is called: POST /user/new awaits it; the USSD handler
\* does not, it clears the session and answers, and the promise settles on
\* its own (kind "ussd_funding").
RegisterInsert(r) ==
  /\ reqs[r].pc = "reg_insert"
  /\ LET rq == reqs[r]
     IN \E dbOk \in BOOLEAN :
          IF ~dbOk \/ ViolatesUnique(rq.phone, rq.address)
          THEN /\ users' = users
               /\ RegisterReply(r, Resp("END", "Registration failed. Try again later"),
                                   Resp("500", "Failed to register user"))
          ELSE /\ users' = registerUser(rq.phone, rq.data.fullName, rq.address,
                                        hashPinPhone(rq.pin, rq.phone))
               /\ IF rq.kind = "ussd_register"
                  THEN /\ ussdSessions' = clearSession(ussdSessions, rq.phone)
                       /\ reqs' = Detach([reqs EXCEPT ![r] =
                                    [rq EXCEPT !.pc = "reg_fund",
                                               !.kind = "ussd_funding"]])
                       /\ out' = [phone |-> rq.phone,
                                  resp |-> [type |-> "END",
                                            body |-> "Registration Successful",
                                            n |-> NEW_USER_FUNDING_AMOUNT.frac,
                                            detail |-> Slice10(rq.address)]]
                       /\ Handled
                  ELSE /\ UNCHANGED ussdSessions
                       /\ Await(r, [rq EXCEPT !.pc = "reg_fund"])
  /\ UNCHANGED <<transactions, tokens, nextAttempt>>

\* What the promise of fundNewUserAccount settles to: the digest of the
\* funding transaction, or an error it throws.
FundingResults ==
  {[status |-> "success", digest |-> 9, error |-> ""],
   [status |-> "failed", digest |-> 0, error |-> "Failed to fund new user account"]}

\* The funding transaction of a new account settles.
FundingResolve(r) ==
  /\ reqs[r].pc = "reg_fund"
  /\ UNCHANGED ussdSessions
  /\ \E res \in FundingResults :
       Await(r, [reqs[r] EXCEPT !.pc = "reg_funded", !.result = res])
  /\ UNCHANGED <<users, transactions, tokens, nextAttempt>>

\* The mutated continuation: POST /user/new lets a funding error reach the
\* outer catch
RegisterFundedOrFail(r) ==
  /\ reqs[r].pc = "reg_funded"
  /\ UNCHANGED ussdSessions
  /\ LET rq == reqs[r]
     IN IF rq.kind = "rest_register"
        THEN Reply(r, rq.phone,
                   IF rq.result.status = "failed"
                   THEN Resp("500", "Failed to register user")
                   ELSE RespD("201", "User registered successfully", rq.address))
        ELSE Await(r, IdleReq)
  /\ UNCHANGED <<users, transactions, tokens, nextAttempt>>

\* The code after the funding call: POST /user/new logs the outcome (its
\* own try/catch around the await) and answers 201; over USSD the .catch of
\* the promise logs an error and nothing else runs.
RegisterFunded(r) ==
  /\ reqs[r].pc = "reg_funded"
  /\ UNCHANGED ussdSessions
  /\ LET rq == reqs[r]
     IN IF rq.kind = "rest_register"
        THEN Reply(r, rq.phone,
                   RespD("201", "User registered successfully", rq.address))
        ELSE Await(r, IdleReq)
  /\ UNCHANGED <<users, transactions, tokens, nextAttempt>>

\* The mutated self-transfer test: nothing counts as the sender's own number
IsSelfNever(userInput, p) == FALSE

\* userInput === phoneNumber
IsSelf(userInput, p) == userInput = p

\* handleSendPhone up to `await getUser(userInput)`
handleSendPhone(r, p, userInput) ==
  /\ FreeSlot(r)
  /\ StateOf(p) = SEND_PHONE
  /\ ussdSessions' = getSession(ussdSessions, p)
  /\ IF userInput = ""
     THEN Reply(r, p, Resp("CON", "Enter recipient"))
     ELSE IF ~IsPhoneFormat(userInput)
     THEN Reply(r, p, Resp("CON", "Invalid phone number format"))
     ELSE IF IsSelf(userInput, p)
     THEN Reply(r, p, Resp("CON", "Cannot send to yourself"))
     ELSE Await(r, [IdleReq EXCEPT !.pc = "lookup", !.kind = "ussd_phone",
                                    !.phone = p, !.input = userInput])
  /\ UNCHANGED <<users, transactions, tokens, nextAttempt>>

\* handleSendPhone after `await getUser(userInput)`; lookupOk = FALSE is the
\* lookup throwing, which the handler's own catch answers.
SendPhoneLookup(r) ==
  /\ reqs[r].pc = "lookup"
  /\ \E lookupOk \in BOOLEAN :
       LET p == reqs[r].phone
           userInput == reqs[r].input
           receiver == getUser(userInput)
       IN IF ~lookupOk
          THEN /\ ussdSessions' = ussdSessions
               /\ Reply(r, p, Resp("CON", "Error checking recipient"))
          ELSE IF ~receiver.registered
          THEN /\ ussdSessions' = ussdSessions
               /\ Reply(r, p, Resp("CON", "Recipient not found"))
          ELSE /\ ussdSessions' = updateSession(ussdSessions, p, SEND_AMOUNT,
                                                 [receiverPhone |-> userInput])
               /\ Reply(r, p, Resp("CON", "Enter amount"))
  /\ UNCHANGED <<users, transactions, tokens, nextAttempt>>

handleSendAmount(r, p, userInput) ==
  /\ FreeSlot(r)
  /\ StateOf(p) = SEND_AMOUNT
  /\ LET s1 == getSession(ussdSessions, p)
         amount == ParseFloat(userInput)
     IN IF userInput = ""
        THEN /\ ussdSessions' = s1
             /\ Reply(r, p, Resp("CON", "Enter amount"))
        ELSE IF IsNaN(amount) \/ ~Less(Whole(0), amount)
        THEN /\ ussdSessions' = s1
             /\ Reply(r, p, Resp("CON", "Invalid amount"))
        ELSE IF Less(amount, MIN_AMOUNT)
        THEN /\ ussdSessions' = s1
             /\ Reply(r, p, Resp("CON", "Minimum amount"))
        ELSE IF Less(Whole(MAX_AMOUNT), amount)
        THEN /\ ussdSessions' = s1
             /\ Reply(r, p, Resp("CON", "Maximum amount"))
        ELSE /\ ussdSessions' = updateSession(s1, p, SEND_PIN, [amount |-> amount])
             /\ Reply(r, p, Resp("CON", "Enter PIN to confirm"))
  /\ UNCHANGED <<users, transactions, tokens, nextAttempt>>

\* ------------------------------------------------------------------------
\* USSD webhook: PIN steps (handleSendPin, handleBalancePin)
\* ------------------------------------------------------------------------

\* A request that submits a wrong PIN is only started below the cap, and a
\* request that may reach the ledger only while transfers are left.
PinGuardBelow(p, pin, sends, cap) ==
  IF verifyPinPhone(pin, p, users[p].pinHash)
  THEN sends => MayTransferBelow(cap)
  ELSE users[p].failedAttempts < MaxCounter

PinGuard(p, pin, sends) == PinGuardBelow(p, pin, sends, MaxTransfers)

\* Entry of a USSD PIN step: grammar check, then `await getUser(phoneNumber)`
UssdPinEntry(r, p, userInput, kind, rePrompt, cap) ==
  LET s1 == getSession(ussdSessions, p)
  IN IF ~IsFourDigits(userInput)
     THEN /\ ussdSessions' = s1
          /\ Reply(r, p, Resp("CON", rePrompt))
     ELSE /\ PinGuardBelow(p, userInput, kind = "ussd_send", cap)
          /\ ussdSessions' = s1
          /\ Await(r, [IdleReq EXCEPT !.pc = "verify", !.kind = kind,
                                       !.phone = p, !.pin = userInput,
                                       !.fa = users[p].failedAttempts,
                                       !.attached = (kind = "ussd_send")])

handleSendPin(r, p, userInput) ==
  /\ FreeSlot(r)
  /\ StateOf(p) = SEND_PIN
  /\ UssdPinEntry(r, p, userInput, "ussd_send", "PIN must be 4 digits",
                  MaxTransfers)
  /\ UNCHANGED <<users, transactions, tokens, nextAttempt>>

\* handleSendPin where the gateway may deliver the request of one dialogue
\* again: a second transfer attempt is within the bounds.
handleSendPinAgain(r, p, userInput) ==
  /\ FreeSlot(r)
  /\ StateOf(p) = SEND_PIN
  /\ UssdPinEntry(r, p, userInput, "ussd_send", "PIN must be 4 digits",
                  MaxResends)
  /\ UNCHANGED <<users, transactions, tokens, nextAttempt>>

handleBalancePin(r, p, userInput) ==
  /\ FreeSlot(r)
  /\ StateOf(p) = BALANCE_PIN
  /\ UssdPinEntry(r, p, userInput, "ussd_balance", "PIN must be 4 digits",
                  MaxTransfers)
  /\ UNCHANGED <<users, transactions, tokens, nextAttempt>>

\* The mutated increment: a mismatch counts twice
NewFailedAttemptsTwice(fa) == fa + 2

\* The counter the guard writes after a mismatch
NewFailedAttempts(fa) == fa + 1

\* The lockout test off by one: locks only above the maximum
LocksOutLate(newFailedAttempts) == newFailedAttempts > MAX_FAILED_ATTEMPTS

\* The guard's lockout test on the counter it has just written
LocksOut(newFailedAttempts) == newFailedAttempts >= MAX_FAILED_ATTEMPTS

\* The reset test off by one: a counter of 1 is not reset
NeedsResetLate(fa) == fa > 1

\* The guard's reset test on the account it read
NeedsReset(fa) == fa > 0

\* USSD: verifyPinPhone on the account read at entry, then the counter write
\* (`await updateUser`) and the code up to the next await.
UssdVerifyPin(r) ==
  /\ reqs[r].pc = "verify"
  /\ reqs[r].kind \in {"ussd_send", "ussd_balance"}
  /\ LET q == reqs[r]
         p == q.phone
         new == NewFailedAttempts(q.fa)
     IN IF ~verifyPinPhone(q.pin, p, users[p].pinHash)
        THEN /\ users' = updateUser(p, new)
             /\ IF LocksOut(new)
                THEN /\ ussdSessions' = clearSession(ussdSessions, p)
                     /\ Reply(r, p, Resp("END", "Account Locked"))
                ELSE /\ ussdSessions' = ussdSessions
                     /\ Reply(r, p, [type |-> "CON", body |-> "Invalid PIN",
                                     n |-> MAX_FAILED_ATTEMPTS - new,
                                     detail |-> IF q.kind = "ussd_send"
                                                THEN "Send SUI"
                                                ELSE "Check Balance"])
        ELSE /\ users' = IF NeedsReset(q.fa) THEN updateUser(p, 0) ELSE users
             /\ ussdSessions' = ussdSessions
             /\ Await(r, [reqs[r] EXCEPT !.pc = "balance"])
  /\ UNCHANGED <<transactions, tokens, nextAttempt>>

\* USSD: `await getUser(phoneNumber)` of a PIN step throws; the handler's
\* catch clears the session and ends the dialogue.
UssdLookupFails(r) ==
  /\ reqs[r].pc = "verify"
  /\ reqs[r].kind \in {"ussd_send", "ussd_balance"}
  /\ ussdSessions' = clearSession(ussdSessions, reqs[r].phone)
  /\ Reply(r, reqs[r].phone,
           IF reqs[r].kind = "ussd_send"
           THEN Resp("END", "Transaction failed. Try again later")
           ELSE Resp("END", "Error checking balance"))
  /\ UNCHANGED <<users, transactions, tokens, nextAttempt>>

\* How the body of a transfer primitive's try block can end for transfer
\* attempt a: the transaction executed and has digest a, or an Error with
\* message e was thrown (by the primitive's own checks or by the ledger client).
TryOutcomes(a) ==
  {[thrown |-> FALSE, digest |-> a, message |-> ""]}
    \cup {[thrown |-> TRUE, digest |-> 0, message |-> e] : e \in LedgerErrors}

\* A primitive that hands a caught error on without its message.
sendSuiSilent(o) ==
  IF o.thrown
    THEN [status |-> "failed", digest |-> 0, error |-> ""]
    ELSE [status |-> "success", digest |-> o.digest, error |-> ""]

\* sendSui: the catch block turns every thrown error into a failed result
\* (digest 0 and error "" stand for null).
sendSui(o) ==
  IF o.thrown
    THEN [status |-> "failed", digest |-> 0, error |-> o.message]
    ELSE [status |-> "success", digest |-> o.digest, error |-> ""]

\* internalTransfer: the same try / catch around the contract call.
internalTransfer(o) ==
  IF o.thrown
    THEN [status |-> "failed", digest |-> 0, error |-> o.message]
    ELSE [status |-> "success", digest |-> o.digest, error |-> ""]

\* What sendSui / internalTransfer resolve to for transfer attempt a: they
\* catch every error and return it as a result.
LedgerResults(a) ==
  {sendSui(o) : o \in TryOutcomes(a)} \cup {internalTransfer(o) : o \in TryOutcomes(a)}

\* The call of the transfer primitive: the request now awaits the ledger.
Dispatch(r, balance, primitive) ==
  Await(r, [reqs[r] EXCEPT !.pc = "ledger", !.attempt = nextAttempt + 1,
                           !.balance = balance, !.via = primitive])

\* POST /transaction/new chooses the primitive by the wallets of the two
\* accounts.
ChoosePrimitive(senderUser, receiverUser) ==
  IF senderUser.walletObjectId # "" /\ receiverUser.walletObjectId # ""
  THEN "internalTransfer"
  ELSE "sendSui"

\* The mutated balance test: every balance suffices
InsufficientNever(balance, amount) == FALSE

\* balance < amount
Insufficient(balance, amount) == Less(Whole(balance), amount)

\* USSD: `await getBalance(user.suiAddress)` and the code up to the ledger
\* call; b = -1 is the balance query (or, on the send path, the lookup of
\* the receiver that follows it) throwing.
UssdGetBalance(r) ==
  /\ reqs[r].pc = "balance"
  /\ reqs[r].kind \in {"ussd_send", "ussd_balance"}
  /\ \E b \in Balances \cup {-1} :
       LET q == reqs[r]
           p == q.phone
       IN IF q.kind = "ussd_balance"
          THEN /\ ussdSessions' = clearSession(ussdSessions, p)
               /\ Reply(r, p, IF b = -1
                                  THEN Resp("END", "Error checking balance")
                                  ELSE RespN("END", "Your SuiFlow Balance", b))
               /\ nextAttempt' = nextAttempt
          ELSE IF b = -1
          THEN /\ ussdSessions' = clearSession(ussdSessions, p)
               /\ Reply(r, p, Resp("END", "Transaction failed. Try again later"))
               /\ nextAttempt' = nextAttempt
          ELSE IF Insufficient(b, SessionData(r).amount)
          THEN /\ ussdSessions' = clearSession(ussdSessions, p)
               /\ Reply(r, p, RespN("END", "Insufficient Balance", b))
               /\ nextAttempt' = nextAttempt
          ELSE /\ ussdSessions' = ussdSessions
               /\ Dispatch(r, b, "sendSui")
               /\ nextAttempt' = nextAttempt + 1
  /\ UNCHANGED <<users, transactions, tokens>>

\* The ledger call resolves.
LedgerResolve(r) ==
  /\ UNCHANGED ussdSessions
  /\ reqs[r].pc = "ledger"
  /\ \E o \in TryOutcomes(reqs[r].attempt) :
       LET res == IF reqs[r].via = "internalTransfer"
                    THEN internalTransfer(o) ELSE sendSui(o)
       IN  /\ res \in LedgerResults(reqs[r].attempt)
           /\ Await(r, [reqs[r] EXCEPT !.pc = "record", !.result = res])
  /\ UNCHANGED <<users, transactions, tokens, nextAttempt>>

\* The stored status ignoring the ledger result
StatusOfAlwaysSuccess(res) == SUCCESS

\* The status the USSD handler stores for a ledger result
StatusOf(res) == IF res.status = "success" THEN SUCCESS ELSE FAILED

\* USSD: `await addTransaction({... status ...})` after the ledger call, then
\* clearSession and the terminal response; dbOk = FALSE is the insert
\* rejecting, which the handler's catch turns into the generic failure.
UssdRecord(r) ==
  /\ reqs[r].pc = "record"
  /\ reqs[r].kind = "ussd_send"
  /\ LET q == reqs[r]
         p == q.phone
         res == q.result
     IN /\ ussdSessions' = clearSession(ussdSessions, p)
        /\ \E dbOk \in BOOLEAN :
             IF dbOk
             THEN /\ transactions' = addTransaction(transactions,
                         Row(p, SessionData(r).receiverPhone,
                             SessionData(r).amount, res.digest,
                             StatusOf(res), res.error, q.attempt))
                  /\ Reply(r, p, IF res.status = "success"
                                     THEN Resp("END", "Transaction Successful")
                                     ELSE RespD("END", "Transaction Failed", res.error))
             ELSE /\ transactions' = transactions
                  /\ Reply(r, p, Resp("END", "Transaction failed. Try again later"))
  /\ UNCHANGED <<users, tokens, nextAttempt>>

\* ------------------------------------------------------------------------
\* REST: POST /api/user/login and POST /api/transaction/new
\* ------------------------------------------------------------------------

\* The mutated lock test: an account at the maximum is not yet locked
IsLockedLate(fa) == fa > MAX_FAILED_ATTEMPTS

\* isLocked as the REST entry points test it on the account they read
IsLocked(fa) == fa >= MAX_FAILED_ATTEMPTS

\* POST /login up to the PIN check: `await getUser(phone)`, the lock test
Login(r, p, pin) ==
  /\ UNCHANGED ussdSessions
  /\ FreeSlot(r)
  /\ LET user == getUser(p)
     IN IF ~user.registered
        THEN Reply(r, p, Resp("401", "Invalid phone number or PIN"))
        ELSE IF IsLocked(user.failedAttempts)
        THEN Reply(r, p, Resp("423", "Account is locked"))
        ELSE /\ PinGuard(p, pin, FALSE)
             /\ Await(r, [IdleReq EXCEPT !.pc = "verify", !.kind = "login",
                                          !.phone = p, !.pin = pin,
                                          !.fa = user.failedAttempts])
  /\ UNCHANGED <<users, transactions, tokens, nextAttempt>>

\* createTransactionSchema on the amount: Joi.number().positive()
\* .min(0.000001).max(1000000)
IsValidAmount(amount) ==
  /\ ~IsNaN(amount)
  /\ Less(Whole(0), amount)
  /\ ~Less(amount, MIN_AMOUNT)
  /\ ~Less(Whole(MAX_AMOUNT), amount)

\* POST /transaction/new up to the PIN check: verifyToken, checkUserStatus
\* (which reads the account into req.userData and rejects a locked one),
\* validateRequest(createTransactionSchema), the self-transfer test and
\* `await getUser(receiverPhone)`.
TransactionNew(r, p, receiverPhone, amount, pin) ==
  /\ UNCHANGED ussdSessions
  /\ FreeSlot(r)
  /\ p \in tokens
  /\ LET senderUser == getUser(p)
         receiverUser == getUser(receiverPhone)
     IN IF ~senderUser.registered
        THEN Reply(r, p, Resp("404", "User account not found"))
        ELSE IF IsLocked(senderUser.failedAttempts)
        THEN Reply(r, p, Resp("423", "Account is locked"))
        ELSE IF ~IsValidAmount(amount)
        THEN Reply(r, p, Resp("400", "Validation failed"))
        ELSE IF p = receiverPhone
        THEN Reply(r, p, Resp("400", "Cannot send SUI to yourself"))
        ELSE IF ~receiverUser.registered
        THEN Reply(r, p, Resp("404", "Receiver not found"))
        ELSE /\ PinGuard(p, pin, TRUE)
             /\ Await(r, [IdleReq EXCEPT !.pc = "verify", !.kind = "txnew",
                                          !.phone = p, !.pin = pin,
                                          !.fa = senderUser.failedAttempts,
                                          !.data = [receiverPhone |-> receiverPhone,
                                                    amount |-> amount]])
  /\ UNCHANGED <<users, transactions, tokens, nextAttempt>>

\* REST: verifyPinPhone on the account read at entry, then the counter write
\* and the code up to the next await.
RestVerifyPin(r) ==
  /\ UNCHANGED ussdSessions
  /\ reqs[r].pc = "verify"
  /\ reqs[r].kind \in {"login", "txnew"}
  /\ LET q == reqs[r]
         p == q.phone
         new == NewFailedAttempts(q.fa)
         remainingAttempts == MAX_FAILED_ATTEMPTS - new
     IN IF ~verifyPinPhone(q.pin, p, users[p].pinHash)
        THEN /\ users' = updateUser(p, new)
             /\ tokens' = tokens
             /\ Reply(r, p, IF remainingAttempts <= 0
                                THEN Resp("423", "Account has been locked")
                                ELSE RespN("401", "Invalid PIN", remainingAttempts))
        ELSE /\ users' = IF NeedsReset(q.fa) THEN updateUser(p, 0) ELSE users
             /\ IF q.kind = "login"
                THEN /\ tokens' = tokens \cup {p}
                     /\ Reply(r, p, Resp("200", "Login successful"))
                ELSE /\ tokens' = tokens
                     /\ Await(r, [reqs[r] EXCEPT !.pc = "balance"])
  /\ UNCHANGED <<transactions, nextAttempt>>

\* POST /transaction/new: the balance query, then the insert of the pending
\* row and the call of the transfer primitive.
RestGetBalance(r) ==
  /\ UNCHANGED ussdSessions
  /\ reqs[r].pc = "balance"
  /\ reqs[r].kind = "txnew"
  /\ \E b \in Balances \cup {-1} : \E dbOk \in BOOLEAN :
       LET q == reqs[r]
           p == q.phone
       IN IF b = -1
          THEN /\ Reply(r, p, Resp("500", "Failed to create transaction"))
               /\ UNCHANGED <<transactions, nextAttempt>>
          ELSE IF Insufficient(b, q.data.amount)
          THEN /\ Reply(r, p, RespN("400", "Insufficient balance", b))
               /\ UNCHANGED <<transactions, nextAttempt>>
          ELSE IF ~dbOk
          THEN /\ Reply(r, p, Resp("500", "Failed to create transaction record"))
               /\ UNCHANGED <<transactions, nextAttempt>>
          ELSE /\ transactions' = addTransaction(transactions,
                      Row(p, q.data.receiverPhone, q.data.amount, 0,
                          PENDING, "", nextAttempt + 1))
               /\ Dispatch(r, b, ChoosePrimitive(getUser(p),
                                                  getUser(q.data.receiverPhone)))
               /\ nextAttempt' = nextAttempt + 1
  /\ UNCHANGED <<users, tokens>>

\* POST /transaction/new after the ledger call resolved: the handler calls
\* addTransaction with the terminal status; an insert that rejects lands in
\* the catch block, which calls addTransaction with FAILED and swallows a
\* second rejection.
RestRecord(r) ==
  /\ UNCHANGED ussdSessions
  /\ reqs[r].pc = "record"
  /\ reqs[r].kind = "txnew"
  /\ \E dbOk \in BOOLEAN : \E dbOk2 \in BOOLEAN :
       LET q == reqs[r]
           p == q.phone
           res == q.result
           row(status, hash, err) ==
             Row(p, q.data.receiverPhone, q.data.amount, hash, status,
                 err, q.attempt)
       IN IF dbOk
          THEN IF res.status = "success"
               THEN /\ transactions' = addTransaction(transactions,
                                          row(SUCCESS, res.digest, ""))
                    /\ Reply(r, p, Resp("201", "Transaction completed successfully"))
               ELSE /\ transactions' = addTransaction(transactions,
                                          row(FAILED, 0, res.error))
                    /\ Reply(r, p, RespD("400", "Transaction failed", res.error))
          ELSE /\ transactions' = IF dbOk2
                                  THEN addTransaction(transactions,
                                          row(FAILED, 0, "database error"))
                                  ELSE transactions
               /\ Reply(r, p, RespD("500", "Transaction failed", "database error"))
  /\ UNCHANGED <<users, tokens, nextAttempt>>

\* ------------------------------------------------------------------------
\* Specifications
\* ------------------------------------------------------------------------

\* A request arrives.
Arrive(r) ==
  \E p \in Callers :
    \/ \E i \in MenuInputs : handleMainMenu(r, p, i)
    \/ \E i \in PhoneInputs : handleSendPhone(r, p, i)
    \/ \E i \in FewAmountInputs : handleSendAmount(r, p, i)
    \/ \E i \in PinInputs : handleSendPin(r, p, i)
    \/ \E i \in PinInputs : handleBalancePin(r, p, i)
    \/ \E pin \in PinInputs \ {"12"} : Login(r, p, pin)
    \/ \E to \in Phones : \E amount \in RestAmounts :
         \E pin \in PinInputs \ {"12"} : TransactionNew(r, p, to, amount, pin)

\* A request in flight continues after an await.
Continue(r) ==
  \/ SendPhoneLookup(r)
  \/ UssdLookupFails(r)
  \/ UssdVerifyPin(r)
  \/ UssdGetBalance(r)
  \/ LedgerResolve(r)
  \/ UssdRecord(r)
  \/ RestVerifyPin(r)
  \/ RestGetBalance(r)
  \/ RestRecord(r)

Next == \E r \in Reqs : Arrive(r) \/ Continue(r)

\* Requests may overlap.
Spec == Init /\ [][Next]_vars

NoneInFlight == \A q \in Reqs : reqs[q].pc = "idle"

NextSeq == \E r \in Reqs : (NoneInFlight /\ Arrive(r)) \/ Continue(r)

\* Requests are served one after the other.
SpecSeq == Init /\ [][NextSeq]_vars

\* Requests are served one after the other; accounts may refer to a
\* SuiFlowWallet object.
SpecRoute == InitRoute /\ [][NextSeq]_vars

\* updateTransaction(transactionId, status, txHash, errorMessage): the
\* UPDATE ... WHERE id = ? of the database service; it rejects when no row
\* has that id.
updateTransaction(rows, id, status, txHash, errorMessage) ==
  IF id \in 1..Len(rows)
  THEN [rows EXCEPT ![id].status = status, ![id].txHash = txHash,
                    ![id].errorMessage = errorMessage]
  ELSE rows

\* A completion is applied to a transaction row through the database
\* service.
Settle(id, status, txHash, errorMessage) ==
  /\ NoneInFlight
  /\ id \in 1..Len(transactions)
  /\ transactions' = updateTransaction(transactions, id, status, txHash, errorMessage)
  /\ out' = NoOut
  /\ UNCHANGED <<users, ussdSessions, tokens, reqs, nextAttempt, now, swept,
                 tick, requestCounts, admitted, admittedAt, wallets, lastCall>>

NextSettle ==
  \/ NextSeq
  \/ \E id \in 1..(3 * MaxTransfers) :
       \/ Settle(id, SUCCESS, 9, "")
       \/ \E e \in LedgerErrors : Settle(id, FAILED, 0, e)

\* Requests are served one after the other, and completions are applied
\* through updateTransaction.
SpecSettle == Init /\ [][NextSettle]_vars

\* The switch of the webhook on the session's state
Webhook(r, p) ==
  \/ \E i \in MenuInputs : handleMainMenu(r, p, i)
  \/ \E i \in NameInputs : handleRegisterName(r, p, i)
  \/ \E i \in PinInputs : handleRegisterPin(r, p, i)
  \/ \E i \in PinInputs \cup {""} : handleRegisterConfirmPin(r, p, i)
  \/ \E i \in PhoneInputs : handleSendPhone(r, p, i)
  \/ \E i \in AmountInputs : handleSendAmount(r, p, i)
  \/ \E i \in PinInputs : handleSendPin(r, p, i)
  \/ \E i \in PinInputs : handleBalancePin(r, p, i)

\* A USSD request in flight continues after an await.
ContinueUssd(r) ==
  \/ SendPhoneLookup(r)
  \/ UssdLookupFails(r)
  \/ UssdVerifyPin(r)
  \/ UssdGetBalance(r)
  \/ LedgerResolve(r)
  \/ UssdRecord(r)

\* Subscribers that dial in without an account.
Newcomers == {"+300"}

NextUssd ==
  \E r \in Reqs :
    \/ NoneInFlight /\ \E p \in Newcomers : Webhook(r, p)
    \/ ContinueUssd(r)
    \/ RegisterLookup(r)
    \/ RegisterInsert(r)
    \/ FundingResolve(r)
    \/ RegisterFunded(r)

\* A newcomer registers over USSD and then uses the menus; the requests are
\* served one after the other.
SpecUssd == Init /\ [][NextUssd]_vars

\* Registration requests for a newcomer over USSD and over REST
ArriveRegister(r) ==
  \E p \in Newcomers :
    \/ \E i \in {"", "1"} : handleMainMenu(r, p, i)
    \/ handleRegisterName(r, p, "Jane Doe")
    \/ handleRegisterPin(r, p, "1234")
    \/ \E i \in {"1234", "4321"} : handleRegisterConfirmPin(r, p, i)
    \/ \E fullName \in RestNames : \E pin \in RestPins : UserNew(r, p, fullName, pin)

NextRegister ==
  \E r \in Reqs :
    \/ ArriveRegister(r)
    \/ RegisterLookup(r)
    \/ RegisterInsert(r)
    \/ FundingResolve(r)
    \/ RegisterFunded(r)

\* A newcomer is registered over USSD and over REST; the requests may
\* overlap.
SpecRegister == Init /\ [][NextRegister]_vars

\* The send dialogue of a registered subscriber: the steps up to SendPin are
\* served one after the other, the SendPin request may arrive again while
\* an earlier one is in flight.
NextResend ==
  \E r \in Reqs :
    \/ NoneInFlight /\ \E p \in Callers :
         \/ \E i \in {"", "1"} : handleMainMenu(r, p, i)
         \/ handleSendPhone(r, p, "+200")
         \/ \E i \in {"2", "2000000"} : handleSendAmount(r, p, i)
    \/ \E p \in Callers : \E i \in {"1234", "4321"} : handleSendPinAgain(r, p, i)
    \/ ContinueUssd(r)

SpecResend == Init /\ [][NextResend]_vars

\* One minute passes; the interval timer of the sweep fires once a minute.
Tick ==
  /\ swept
  /\ now < MaxNow
  /\ now' = now + 1
  /\ swept' = FALSE
  /\ out' = NoOut
  /\ admittedAt' = [p \in Phones |-> [k \in 1..RATE_LIMIT_WINDOW |-> 0]]
  /\ UNCHANGED <<users, ussdSessions, transactions, tokens, reqs, nextAttempt,
                 tick, requestCounts, admitted, wallets, lastCall>>

\* The mutated test: no session ever counts as expired
IsExpiredNever(session) == FALSE

\* Whether the sweep removes a session
IsExpired(session) == now - session.lastActivity > SESSION_TIMEOUT

\* The callback of setInterval: remove the expired sessions
Sweep ==
  /\ ~swept
  /\ ussdSessions' = [p \in Phones |->
                        IF ussdSessions[p] # NoSession /\ IsExpired(ussdSessions[p])
                        THEN NoSession
                        ELSE ussdSessions[p]]
  /\ reqs' = Detach(reqs)
  /\ swept' = TRUE
  /\ out' = NoOut
  /\ UNCHANGED <<users, transactions, tokens, nextAttempt, now,
                 tick, requestCounts, admitted, admittedAt, wallets, lastCall>>

NextIdle ==
  \/ \E r \in Reqs :
       \/ NoneInFlight /\ \E p \in Callers :
            \/ \E i \in MenuInputs : handleMainMenu(r, p, i)
            \/ \E i \in PhoneInputs : handleSendPhone(r, p, i)
            \/ \E i \in AmountInputs : handleSendAmount(r, p, i)
            \/ \E i \in PinInputs : handleSendPin(r, p, i)
            \/ \E i \in PinInputs : handleBalancePin(r, p, i)
       \/ ContinueUssd(r)
  \/ Tick
  \/ Sweep

\* USSD requests of a registered subscriber, served one after the other,
\* while time passes and the sweep runs.
SpecIdle == Init /\ [][NextIdle]_vars

\* Two subscribers that use the service at the same time
Pair == {"+100", "+200"}

\* The subscriber that sends, and the one that receives and reads the
\* balance meanwhile
Sender == "+100"
Reader == "+200"

\* A USSD request of subscriber p arrives: the sender goes through the send
\* dialogue, the other subscriber through the balance dialogue, with the
\* right PIN and with a wrong one.
ArrivePair(r, p) ==
  IF p = Sender
  THEN \/ handleMainMenu(r, p, "1")
       \/ handleSendPhone(r, p, Reader)
       \/ handleSendAmount(r, p, "2")
       \/ handleSendPin(r, p, "1234")
  ELSE \/ handleMainMenu(r, p, "2")
       \/ \E i \in {"1234", "4321"} : handleBalancePin(r, p, i)

NextPair ==
  \E r \in Reqs : (\E p \in Pair : ArrivePair(r, p)) \/ ContinueUssd(r)

\* USSD requests of two subscribers, one of whom sends to the other; the
\* requests may overlap.
SpecPair == Init /\ [][NextPair]_vars

\* A subscriber opens dialogues and abandons them.
NextAbandon ==
  \/ \E r \in Reqs : \E p \in Callers :
       \/ \E i \in {"", "1", "2"} : handleMainMenu(r, p, i)
       \/ handleSendPhone(r, p, "abc")
       \/ handleBalancePin(r, p, "12")
  \/ Tick
  \/ Sweep

\* Dialogues are opened and abandoned while time passes; setInterval keeps
\* calling the sweep once a minute.
SpecAbandon ==
  Init /\ [][NextAbandon]_vars /\ WF_vars(Tick) /\ WF_vars(Sweep)

\* Date.now() as the rate limiter reads it, in ticks
Clock == TicksPerMinute * now + tick

\* Twenty seconds pass.
TickClock ==
  /\ admitted = NoPhone
  /\ swept
  /\ Clock < MaxClock
  /\ tick' = (tick + 1) % TicksPerMinute
  /\ now' = IF tick + 1 = TicksPerMinute THEN now + 1 ELSE now
  /\ swept' = (tick + 1 # TicksPerMinute)
  /\ admittedAt' = [p \in Phones |->
                      [k \in 1..RATE_LIMIT_WINDOW |->
                         IF k = 1 THEN 0 ELSE admittedAt[p][k - 1]]]
  /\ out' = NoOut
  /\ UNCHANGED <<users, ussdSessions, transactions, tokens, reqs, nextAttempt,
                 requestCounts, admitted, wallets, lastCall>>

\* The limiter's map after its loop has deleted the old entries
CleanOldEntries(windowStart) ==
  [k \in Phones |->
     IF requestCounts[k] # NoEntry /\ requestCounts[k].timestamp < windowStart
     THEN NoEntry
     ELSE requestCounts[k]]

\* The middleware in front of the webhook: it answers 429 itself or counts
\* the request and calls next().
rateLimitUSSD(p) ==
  LET windowStart == Clock - RATE_LIMIT_WINDOW
      cleaned == CleanOldEntries(windowStart)
      phoneRequests == IF cleaned[p] = NoEntry
                       THEN [count |-> 0, timestamp |-> Clock]
                       ELSE cleaned[p]
  IN /\ admitted = NoPhone
     /\ NoneInFlight
     /\ phoneRequests.count < MaxRequestCount
     /\ IF /\ phoneRequests.count >= RATE_LIMIT_MAX_REQUESTS
           /\ phoneRequests.timestamp > windowStart
        THEN /\ requestCounts' = cleaned
             /\ out' = [phone |-> p,
                        resp |-> Resp("END", "Rate limit exceeded")]
             /\ UNCHANGED <<admitted, admittedAt>>
        ELSE /\ requestCounts' =
                  [cleaned EXCEPT ![p] =
                     IF phoneRequests.timestamp < windowStart
                     THEN [count |-> 1, timestamp |-> Clock]
                     ELSE [phoneRequests EXCEPT !.count = @ + 1]]
             /\ admitted' = p
             /\ admittedAt' = [admittedAt EXCEPT ![p][1] = @ + 1]
             /\ out' = NoOut
     /\ UNCHANGED <<users, ussdSessions, transactions, tokens, reqs, nextAttempt,
                    now, swept, tick, wallets, lastCall>>

\* next(): the route handler runs for the request the limiter passed on.
\* The subscriber dials in, asks for the balance and mistypes the PIN.
WebhookAdmitted(r) ==
  /\ admitted # NoPhone
  /\ \/ \E i \in {"", "2"} : handleMainMenu(r, admitted, i)
     \/ \E i \in {"12", "4321"} : handleBalancePin(r, admitted, i)

NextRate ==
  \/ \E p \in Callers : rateLimitUSSD(p)
  \/ \E r \in Reqs : WebhookAdmitted(r)
  \/ \E r \in Reqs : UssdVerifyPin(r)
  \/ TickClock
  \/ Sweep

\* The balance dialogue of a registered subscriber behind the rate limiter:
\* the requests are served one after the other, while time passes.
SpecRate == Init /\ [][NextRate]_vars

\* ------------------------------------------------------------------------
\* The Move package: modules suiflow_wallet and suiflow_admin
\* ------------------------------------------------------------------------

\* init transfers the one AdminCap to the publisher of the package.
HoldsAdminCap(sender) == sender = "publisher"

\* A transaction takes an object by reference only if its sender holds the
\* object; createSuiFlowWallet transfers each new wallet to the address that
\* created it.
CanUse(sender, w) == wallets[w].exists /\ wallets[w].holder = sender

\* A transaction of sender has called function on the wallets args and was
\* executed; cap: an AdminCap was among its arguments.  Nothing off chain
\* changes.
Called(function, sender, args, cap) ==
  /\ lastCall' = [function |-> function, sender |-> sender, args |-> args,
                  cap |-> cap, abort |-> ""]
  /\ out' = NoOut
  /\ UNCHANGED <<users, ussdSessions, transactions, tokens, reqs, nextAttempt,
                 now, swept, tick, requestCounts, admitted, admittedAt>>

\* The call aborted with code: the transaction has no effect on any object.
Aborted(function, sender, args, code) ==
  /\ wallets' = wallets
  /\ lastCall' = [function |-> function, sender |-> sender, args |-> args,
                  cap |-> FALSE, abort |-> code]
  /\ out' = NoOut
  /\ UNCHANGED <<users, ussdSessions, transactions, tokens, reqs, nextAttempt,
                 now, swept, tick, requestCounts, admitted, admittedAt>>

create_wallet(sender, w) ==
  /\ ~wallets[w].exists
  /\ \A v \in WalletIds : v < w => wallets[v].exists
  /\ wallets' = [wallets EXCEPT ![w] =
                   [exists |-> TRUE, holder |-> sender, owner_address |-> sender,
                    balance |-> 0, is_frozen |-> FALSE]]
  /\ Called("create_wallet", sender, <<w>>, FALSE)

\* tx.transferObjects([wallet], address): SuiFlowWallet has `store`, so
\* whoever holds a wallet can pass it on; owner_address stays what it was.
transferObjects(sender, w, to) ==
  /\ CanUse(sender, w)
  /\ to # sender
  /\ wallets' = [wallets EXCEPT ![w].holder = to]
  /\ Called("transferObjects", sender, <<w>>, FALSE)

\* The mutated deposit: the frozen flag is not looked at
depositUnchecked(sender, w, coin) ==
  /\ CanUse(sender, w)
  /\ wallets[w].balance + coin <= MaxBalance
  /\ wallets' = [wallets EXCEPT ![w].balance = @ + coin]
  /\ Called("deposit", sender, <<w>>, FALSE)

deposit(sender, w, coin) ==
  /\ CanUse(sender, w)
  /\ wallets[w].balance + coin <= MaxBalance
  /\ IF wallets[w].is_frozen
     THEN Aborted("deposit", sender, <<w>>, "EWalletFrozen")
     ELSE /\ wallets' = [wallets EXCEPT ![w].balance = @ + coin]
          /\ Called("deposit", sender, <<w>>, FALSE)

\* balance::split aborts when the wallet holds less than amount
withdraw(sender, w, amount) ==
  /\ CanUse(sender, w)
  /\ IF sender # wallets[w].owner_address
     THEN Aborted("withdraw", sender, <<w>>, "ENotOwner")
     ELSE IF wallets[w].is_frozen
     THEN Aborted("withdraw", sender, <<w>>, "EWalletFrozen")
     ELSE IF amount > wallets[w].balance
     THEN Aborted("withdraw", sender, <<w>>, "ENotEnough")
     ELSE /\ wallets' = [wallets EXCEPT ![w].balance = @ - amount]
          /\ Called("withdraw", sender, <<w>>, FALSE)

internal_transfer(sender, from_wallet, to_wallet, amount) ==
  LET args == <<from_wallet, to_wallet>>
  IN /\ from_wallet # to_wallet
     /\ CanUse(sender, from_wallet)
     /\ CanUse(sender, to_wallet)
     /\ wallets[to_wallet].balance + amount <= MaxBalance
     /\ IF sender # wallets[from_wallet].owner_address
        THEN Aborted("internal_transfer", sender, args, "ENotOwner")
        ELSE IF wallets[from_wallet].is_frozen \/ wallets[to_wallet].is_frozen
        THEN Aborted("internal_transfer", sender, args, "EWalletFrozen")
        ELSE IF amount > wallets[from_wallet].balance
        THEN Aborted("internal_transfer", sender, args, "ENotEnough")
        ELSE /\ wallets' = [wallets EXCEPT ![from_wallet].balance = @ - amount,
                                           ![to_wallet].balance = @ + amount]
             /\ Called("internal_transfer", sender, args, FALSE)

\* suiflow_wallet::freeze_wallet, a public function
freeze_wallet(sender, w) ==
  /\ CanUse(sender, w)
  /\ wallets' = [wallets EXCEPT ![w].is_frozen = TRUE]
  /\ Called("freeze_wallet", sender, <<w>>, FALSE)

\* suiflow_wallet::unfreeze_wallet, a public function
unfreeze_wallet(sender, w) ==
  /\ CanUse(sender, w)
  /\ wallets' = [wallets EXCEPT ![w].is_frozen = FALSE]
  /\ Called("unfreeze_wallet", sender, <<w>>, FALSE)

\* suiflow_admin::freeze_user_wallet(_cap, wallet)
freeze_user_wallet(sender, w) ==
  /\ HoldsAdminCap(sender)
  /\ CanUse(sender, w)
  /\ wallets' = [wallets EXCEPT ![w].is_frozen = TRUE]
  /\ Called("freeze_user_wallet", sender, <<w>>, TRUE)

\* suiflow_admin::unfreeze_user_wallet(_cap, wallet)
unfreeze_user_wallet(sender, w) ==
  /\ HoldsAdminCap(sender)
  /\ CanUse(sender, w)
  /\ wallets' = [wallets EXCEPT ![w].is_frozen = FALSE]
  /\ Called("unfreeze_user_wallet", sender, <<w>>, TRUE)

NextContract ==
  \E sender \in Addresses : \E w \in WalletIds :
    \/ create_wallet(sender, w)
    \/ \E to \in Addresses : transferObjects(sender, w, to)
    \/ \E coin \in 1..MaxBalance : deposit(sender, w, coin)
    \/ \E amount \in 1..MaxBalance : withdraw(sender, w, amount)
    \/ \E to_wallet \in WalletIds : \E amount \in 1..MaxBalance :
         internal_transfer(sender, w, to_wallet, amount)
    \/ freeze_wallet(sender, w)
    \/ unfreeze_wallet(sender, w)
    \/ freeze_user_wallet(sender, w)
    \/ unfreeze_user_wallet(sender, w)

\* Transactions of the publisher and of a user call the functions of the
\* package.
SpecContract == Init /\ [][NextContract]_vars

TypeOK ==
  /\ \A p \in Phones : users[p].failedAttempts \in 0..(MaxCounter + 1)
  /\ \A p \in Phones : ussdSessions[p].state \in
       {"none", MAIN_MENU, REGISTER_NAME, REGISTER_PIN, REGISTER_CONFIRM_PIN,
        SEND_PHONE, SEND_AMOUNT, SEND_PIN, BALANCE_PIN}
  /\ tokens \subseteq Phones
  /\ nextAttempt \in 0..(MaxTransfers + MaxResends)
  /\ \A r \in Reqs : reqs[r].pc \in
       {"idle", "lookup", "verify", "balance", "ledger", "record",
        "reg_lookup", "reg_insert", "reg_fund", "reg_funded"}
  /\ now \in 0..MaxNow
  /\ swept \in BOOLEAN
  /\ tick \in 0..(TicksPerMinute - 1)
  /\ admitted \in Phones \cup {NoPhone}
  /\ \A p \in Phones : requestCounts[p].count \in 0..(MaxRequestCount + 1)
  /\ \A w \in WalletIds : wallets[w].balance \in 0..(MaxBalance + 1)

\* ------------------------------------------------------------------------
\* Properties
\* ------------------------------------------------------------------------

\* The request in slot r takes its PIN-verification step (the account was
\* read and verifyPinPhone ran).
PinStep(r) ==
  /\ reqs[r].pc = "verify"
  /\ reqs'[r].pc # "verify"
  /\ out'.resp \notin {Resp("END", "Transaction failed. Try again later"),
                        Resp("END", "Error checking balance")}

\* The PIN the request in slot r carries does not match the account.
WrongPin(r) ==
  ~verifyPinPhone(reqs[r].pin, reqs[r].phone, users[reqs[r].phone].pinHash)

IsUssdPin(r) == reqs[r].kind \in {"ussd_send", "ussd_balance"}

\* The terminal lockout responses of the USSD and of the REST entry points
IsLockoutResp(resp) ==
  \/ resp = Resp("END", "Account Locked")
  \/ resp = Resp("423", "Account has been locked")

\* C1: once failedAttempts has reached MAX_FAILED_ATTEMPTS, every PIN
\* submission at SendPin or BalancePin, correct or not, yields the terminal
\* lockout response; it shows no balance, dispatches no transfer and does
\* not reset the counter.
C1_LockedStaysLocked ==
  [][\A r \in Reqs :
       (PinStep(r) /\ IsUssdPin(r)
          /\ users[reqs[r].phone].failedAttempts >= MAX_FAILED_ATTEMPTS)
       => /\ out'.resp = Resp("END", "Account Locked")
          /\ users'[reqs[r].phone].failedAttempts >= MAX_FAILED_ATTEMPTS]_vars

\* C2: in every reachable state every account's failedAttempts lies in
\* 0..MAX_FAILED_ATTEMPTS.
C2_CounterInRange ==
  \A p \in Phones :
    /\ users[p].failedAttempts >= 0
    /\ users[p].failedAttempts <= MAX_FAILED_ATTEMPTS

\* C3: no increment of the failed-attempt counter is lost: every wrong-PIN
\* verification of an account below the lockout threshold leaves the stored
\* counter one higher than it was, also when the reads and writes of
\* several requests interleave.
C3_NoLostIncrement ==
  [][\A r \in Reqs :
       (PinStep(r) /\ WrongPin(r)
          /\ users[reqs[r].phone].failedAttempts < MAX_FAILED_ATTEMPTS)
       => users'[reqs[r].phone].failedAttempts
            = users[reqs[r].phone].failedAttempts + 1]_vars

\* C4: when requests are served one after the other, a wrong PIN submitted
\* for an account that is not locked raises failedAttempts by exactly one,
\* and the lockout response is given (and, on USSD, the session removed)
\* exactly when that write brings the counter to MAX_FAILED_ATTEMPTS.
C4_SequentialLockout ==
  [][\A r \in Reqs :
       (PinStep(r) /\ WrongPin(r)
          /\ users[reqs[r].phone].failedAttempts < MAX_FAILED_ATTEMPTS)
       => LET p == reqs[r].phone
              locks == users'[p].failedAttempts = MAX_FAILED_ATTEMPTS
          IN /\ users'[p].failedAttempts = users[p].failedAttempts + 1
             /\ IsLockoutResp(out'.resp) <=> locks
             /\ IsUssdPin(r) =>
                  /\ ussdSessions[p] # NoSession
                  /\ (ussdSessions'[p] = NoSession) <=> locks
                  /\ ~locks => ussdSessions'[p] = ussdSessions[p]]_vars

\* C4 witness: the third wrong PIN in a row has just locked the account.
C4_Witness ==
  /\ out.resp = Resp("END", "Account Locked")
  /\ users[out.phone].failedAttempts = MAX_FAILED_ATTEMPTS
  /\ ussdSessions[out.phone] = NoSession

InFlight(a) == \E r \in Reqs : reqs[r].attempt = a /\ reqs[r].pc \in {"ledger", "record"}

Rows == 1..Len(transactions)

\* C6: each transfer attempt is represented by exactly one transaction row,
\* which was created with status pending.
C6_OnePendingBornRowPerTransfer ==
  /\ \A i \in Rows : \A j \in Rows :
       transactions[i].attempt = transactions[j].attempt => i = j
  /\ \A i \in Rows : transactions[i].initial = PENDING

\* C7: a transfer whose ledger call returned an error after its pending
\* row was created ends with that row failed and carrying a reason: when
\* the request that created the row answers that the transaction failed, no
\* row of that transfer is still pending.
C7_FailedTransferEndsFailed ==
  [][\A r \in Reqs :
       (/\ reqs[r].pc = "record"
        /\ reqs[r].result.status = "failed"
        /\ reqs'[r].pc = "idle"
        /\ out'.resp = RespD("400", "Transaction failed", reqs[r].result.error))
       => \A i \in Rows :
            (transactions[i].attempt = reqs[r].attempt
               /\ transactions[i].status = PENDING)
            => /\ transactions'[i].status = FAILED
               /\ transactions'[i].errorMessage # ""]_vars

\* C8: whenever a transfer primitive has been called, a pending row for
\* that transfer had been inserted before the call.
C8_PendingRowBeforeCall ==
  \A r \in Reqs :
    reqs[r].pc = "ledger" =>
      \E i \in Rows : /\ transactions[i].attempt = reqs[r].attempt
                      /\ transactions[i].initial = PENDING

C10_TerminalRowUnchanged ==
  [][\A i \in Rows :
       transactions[i].status \in {SUCCESS, FAILED}
       => (i <= Len(transactions') /\ transactions'[i] = transactions[i])]_vars

\* C11: every transaction row ever inserted carries an amount between
\* MIN_AMOUNT and MAX_AMOUNT, and the request that inserts it has obtained
\* from its own balance query a balance that is at least that amount.
C11_RowAmountCoveredByBalance ==
  [][Len(transactions') > Len(transactions) =>
       LET row == transactions'[Len(transactions')]
       IN /\ IsValidAmount(row.amount)
          /\ \E r \in Reqs :
               LET q == IF reqs[r].pc = "balance" THEN reqs'[r] ELSE reqs[r]
               IN /\ q.attempt = row.attempt
                  /\ q.balance # 0 - 1
                  /\ ~Less(Whole(q.balance), row.amount)]_vars

\* C12: at SendPin with a correct PIN the balance reported by the ledger
\* query of that request decides: when it is less than the collected
\* amount the answer is the terminal insufficient-balance response showing
\* that balance, the session is removed, no transfer is dispatched and no
\* row is inserted; a transfer is dispatched only with a balance that
\* covers the amount.
C12_FreshBalanceDecides ==
  [][\A r \in Reqs :
       (reqs[r].kind = "ussd_send" /\ reqs[r].pc = "balance"
          /\ reqs'[r].pc # "balance")
       => LET p == reqs[r].phone
              amount == SessionData(r).amount
              aborted == /\ ussdSessions'[p] = NoSession
                         /\ reqs'[r].pc = "idle"
                         /\ transactions' = transactions
                         /\ nextAttempt' = nextAttempt
          IN \/ /\ out'.resp.type = "END"
                /\ out'.resp.body = "Insufficient Balance"
                /\ Less(Whole(out'.resp.n), amount)
                /\ aborted
             \/ /\ out'.resp = Resp("END", "Transaction failed. Try again later")
                /\ aborted
             \/ /\ reqs'[r].pc = "ledger"
                /\ reqs'[r].balance >= 0
                /\ ~Less(Whole(reqs'[r].balance), amount)
                /\ transactions' = transactions]_vars

\* C12 witness: a send was refused for insufficient balance; the session is
\* gone, nothing was dispatched and nothing recorded.
C12_Witness ==
  /\ out.resp.body = "Insufficient Balance"
  /\ out.resp.n = 0
  /\ ussdSessions[out.phone] = NoSession
  /\ transactions = << >>
  /\ nextAttempt = 0

\* C13: an input at SendRecipient that equals the sender's own number is
\* answered with a re-prompt and leaves the session in SendRecipient with
\* its fields unchanged, and no session ever holds its own subscriber as
\* the receiver.
C13_SelfTransferRejected ==
  /\ [](\A p \in Phones : ussdSessions[p].data.receiverPhone # p)
  /\ [][\A r \in Reqs : \A p \in Phones :
          handleSendPhone(r, p, p)
          => /\ out'.resp.type = "CON"
             /\ reqs'[r].pc = "idle"
             /\ ussdSessions'[p].state = SEND_PHONE
             /\ ussdSessions'[p].data = ussdSessions[p].data]_vars

\* C13 witness: the sender's own number has just been refused at
\* SendRecipient.
C13_Witness ==
  /\ out.resp = Resp("CON", "Cannot send to yourself")
  /\ ussdSessions[out.phone].state = SEND_PHONE

\* The texts of AmountInputs that are decimal numerals
IsNumeral(tok) ==
  tok \in {"0", "-5", "2", "0.0000001", "0.000001", "1000000", "2000000"}

\* C14: at SendAmount an input is accepted (the session moves to SendPin
\* and stores the amount) if and only if it denotes a number between
\* MIN_AMOUNT and MAX_AMOUNT; every other input is answered with a
\* re-prompt and leaves the session in SendAmount with its fields unchanged.
C14_AcceptsExactlyAmountsInRange ==
  [][\A r \in Reqs : \A p \in Phones : \A i \in AmountInputs :
       handleSendAmount(r, p, i)
       => IF IsNumeral(i) /\ IsValidAmount(ParseFloat(i))
          THEN /\ ussdSessions'[p].state = SEND_PIN
               /\ ussdSessions'[p].data.amount = ParseFloat(i)
          ELSE /\ out'.resp.type = "CON"
               /\ ussdSessions'[p].state = SEND_AMOUNT
               /\ ussdSessions'[p].data = ussdSessions[p].data]_vars

\* The inputs that fail the grammar of a state: a name shorter than two
\* characters, a PIN that is not four digits, a text that is not a phone
\* number, a text that does not parse to an amount within the bounds.
FailsNameGrammar(tok) == tok \in {"", "a"}
FailsPinGrammar(tok) == tok \in {"", "12"}
FailsPhoneGrammar(tok) == tok \in {"", "abc"}
FailsAmountGrammar(tok) == ~IsValidAmount(ParseFloat(tok))

\* The request of subscriber p is answered with a re-prompt and changes
\* neither the state or the fields of the session nor any account.
RePrompted(r, p) ==
  /\ out'.resp.type = "CON"
  /\ out'.phone = p
  /\ reqs'[r].pc = "idle"
  /\ ussdSessions'[p].state = ussdSessions[p].state
  /\ ussdSessions'[p].data = ussdSessions[p].data
  /\ users' = users

C16_MismatchDiscardsPin ==
  [][\A r \in Reqs : \A p \in Phones : \A i \in PinInputs \cup {""} :
       (handleRegisterConfirmPin(r, p, i) /\ i # ussdSessions[p].data.pin)
       => /\ ussdSessions'[p].state = REGISTER_PIN
          /\ ussdSessions'[p].data.fullName = ussdSessions[p].data.fullName
          /\ ussdSessions'[p].data.pin = ""
          /\ users' = users]_vars

\* The responses the webhook and its handlers send only when a lookup, a
\* query or an insert has thrown
IsFaultResp(resp) ==
  resp.body \in {"Sorry, there was an error", "Error checking recipient",
                 "Transaction failed. Try again later", "Error checking balance",
                 "Registration failed. Try again later",
                 "Error getting transaction history"}

\* C17: when the handling of a USSD request meets an internal fault, the
\* response is a terminal END error and the subscriber's session, with all
\* its collected fields, is gone from the store.
C17_FaultAbortsSession ==
  [][IsFaultResp(out'.resp)
       => /\ out'.resp.type = "END"
          /\ ussdSessions'[out'.phone] = NoSession]_vars

\* C18: a session that has been untouched for SESSION_TIMEOUT or longer
\* when the sweep runs is absent from the store after that sweep.
C18_SweepRemovesIdleSessions ==
  [][Sweep
       => \A p \in Phones :
            (ussdSessions[p] # NoSession
               /\ now - ussdSessions[p].lastActivity >= SESSION_TIMEOUT)
            => ussdSessions'[p] = NoSession]_vars

\* C19: a stale flow is never resumed: no request is handled in a state
\* other than MainMenu on a session whose last activity lies more than
\* SESSION_TIMEOUT before the arrival of the request, whether or not the
\* sweep has run in between.
C19_StaleFlowNotResumed ==
  [][\A r \in Reqs : \A p \in Phones :
       (\/ \E i \in PhoneInputs : handleSendPhone(r, p, i)
        \/ \E i \in AmountInputs : handleSendAmount(r, p, i)
        \/ \E i \in PinInputs : handleSendPin(r, p, i)
        \/ \E i \in PinInputs : handleBalancePin(r, p, i))
       => now - ussdSessions[p].lastActivity <= SESSION_TIMEOUT]_vars

\* C20: the sweep never makes a request in flight lose the fields collected
\* before it: a SendPin request that completes with a CON response (the
\* PIN is asked again) leaves the session in the store, in SendPin, with
\* the receiver and the amount collected in the earlier steps, also when
\* the sweep ran while the request was awaiting.
C20_RequestOutlivesSweep ==
  [][\A r \in Reqs :
       (reqs[r].kind = "ussd_send" /\ reqs[r].pc = "verify"
          /\ reqs'[r].pc = "idle" /\ out'.resp.type = "CON")
       => LET p == reqs[r].phone
          IN /\ ussdSessions'[p] # NoSession
             /\ ussdSessions'[p].state = SEND_PIN
             /\ ussdSessions'[p].data = SessionData(r)]_vars

\* C21: every response of the USSD endpoint is terminal (END) or
\* intermediate (CON); after a terminal response the subscriber has no
\* session in the store, after an intermediate one the session is there.
\* The responses of the rate limiter and of the error paths are included.
C21_MarkerMatchesSession ==
  out # NoOut
  => /\ out.resp.type \in {"CON", "END"}
     /\ out.resp.type = "END" => ussdSessions[out.phone] = NoSession
     /\ out.resp.type = "CON" => ussdSessions[out.phone] # NoSession

\* A response that reports a failure of the database, not an outcome of
\* the dialogue
IsDbFaultResp(resp) ==
  resp.body \in {"Sorry, there was an error", "Registration failed. Try again later"}

\* C22: for an unregistered subscriber the inputs "" , "1", a valid name, a
\* 4-digit PIN and the same PIN again move the session MainMenu ->
\* RegisterName -> RegisterPin -> RegisterConfirmPin; the confirmation ends
\* with the terminal success response (first ten characters of the address,
\* the funding amount), the subscriber then has an account with that name
\* and failedAttempts = 0, and the session is removed.  A step that the
\* database fails ends the dialogue without creating an account.
C22_RegistrationScenario ==
  [][\A r \in Reqs : \A p \in Phones :
       LET fault == IsDbFaultResp(out'.resp)
       IN ~users[p].registered
          => /\ handleMainMenu(r, p, "") /\ ~fault
                => /\ ussdSessions'[p].state = MAIN_MENU
                   /\ out'.resp.type = "CON"
             /\ handleMainMenu(r, p, "1") /\ ~fault
                => /\ ussdSessions'[p].state = REGISTER_NAME
                   /\ out'.resp.type = "CON"
             /\ handleRegisterName(r, p, "Jane Doe")
                => /\ ussdSessions'[p].state = REGISTER_PIN
                   /\ ussdSessions'[p].data.fullName = "Jane Doe"
                   /\ out'.resp.type = "CON"
             /\ \A pin \in {"1234", "4321"} :
                  handleRegisterPin(r, p, pin)
                  => /\ ussdSessions'[p].state = REGISTER_CONFIRM_PIN
                     /\ ussdSessions'[p].data.pin = pin
                     /\ out'.resp.type = "CON"
             /\ handleRegisterConfirmPin(r, p, ussdSessions[p].data.pin)
                => /\ reqs'[r].pc = "reg_lookup"
                   /\ reqs'[r].data.fullName = ussdSessions[p].data.fullName
             /\ reqs[r].phone = p /\ reqs[r].kind = "ussd_register"
                => /\ RegisterLookup(r)
                      => IF out' = NoOut
                         THEN reqs'[r].pc = "reg_insert"
                         ELSE fault /\ ussdSessions'[p] = NoSession
                   /\ RegisterInsert(r)
                      => /\ ussdSessions'[p] = NoSession
                         /\ out'.resp.type = "END"
                         /\ IF fault
                            THEN users' = users
                            ELSE /\ out'.resp.body = "Registration Successful"
                                 /\ out'.resp.detail = Slice10(reqs[r].address)
                                 /\ out'.resp.n = NEW_USER_FUNDING_AMOUNT.frac
                                 /\ users'[p].registered
                                 /\ users'[p].fullName = reqs[r].data.fullName
                                 /\ users'[p].failedAttempts = 0
                                 /\ \A q \in Phones \ {p} : users'[q] = users[q]]_vars

\* The newcomer has just been registered as Jane Doe.
C22_Witness ==
  /\ out.phone = "+300"
  /\ out.resp.body = "Registration Successful"
  /\ out.resp.detail = "0x3a5f7c9e"
  /\ users["+300"].registered
  /\ users["+300"].fullName = "Jane Doe"
  /\ users["+300"].failedAttempts = 0
  /\ ussdSessions["+300"] = NoSession

\* The request in slot r is a registration for subscriber p.
IsRegistrationOf(r, p) ==
  /\ reqs[r].phone = p
  /\ reqs[r].kind \in {"ussd_register", "rest_register"}

IsAlreadyRegisteredResp(resp) ==
  resp.body \in {"Phone number already registered",
                 "User with this phone number already exists"}

IsRegisterFaultResp(resp) ==
  resp.body \in {"Registration failed. Try again later", "Failed to register user"}

\* C23: a registration that finds an account for its subscriber is rejected
\* as already registered, and no step of a registration, overlapping or not,
\* changes an account that exists (name, verifier, address, failedAttempts):
\* a subscriber never has a second account.
C23_OneAccountPerSubscriber ==
  [][\A p \in Phones :
       users[p].registered
       => /\ users'[p] = users[p]
          /\ \A r \in Reqs :
               IsRegistrationOf(r, p) /\ RegisterLookup(r)
               /\ ~IsRegisterFaultResp(out'.resp)
               => /\ IsAlreadyRegisteredResp(out'.resp)
                  /\ out'.phone = p]_vars

\* Two registrations of one subscriber overlap: the account exists and an
\* INSERT for the same subscriber, with another name, is still to come.
C23_Witness ==
  \E r \in Reqs :
    /\ reqs[r].pc = "reg_insert"
    /\ users[reqs[r].phone].registered
    /\ users[reqs[r].phone].fullName # reqs[r].data.fullName

\* The request in slot r calls a transfer primitive in this step.
CallsLedger(r) == reqs[r].pc # "ledger" /\ reqs'[r].pc = "ledger"

\* The receiver of the transfer of the request in slot r
ReceiverOf(r) ==
  IF reqs[r].kind = "ussd_send" THEN SessionData(r).receiverPhone
  ELSE reqs[r].data.receiverPhone

HasWallet(p) == getUser(p).walletObjectId # ""

C25_SharedCounterAndRemaining ==
  [][\A r \in Reqs :
       PinStep(r) /\ IsUssdPin(r) /\ WrongPin(r)
       => LET p == reqs[r].phone
          IN /\ users'[p].failedAttempts = users[p].failedAttempts + 1
             /\ IF users'[p].failedAttempts >= MAX_FAILED_ATTEMPTS
                THEN out'.resp = Resp("END", "Account Locked")
                ELSE /\ out'.resp.type = "CON"
                     /\ out'.resp.body = "Invalid PIN"
                     /\ out'.resp.n = MAX_FAILED_ATTEMPTS - users'[p].failedAttempts
                     /\ out'.resp.n >= 1]_vars

\* The second wrong PIN in a row was given at BalancePin: one attempt is
\* left.
C25_Witness ==
  /\ out.resp.type = "CON"
  /\ out.resp.body = "Invalid PIN"
  /\ out.resp.detail = "Check Balance"
  /\ out.resp.n = 1
  /\ users[out.phone].failedAttempts = MAX_FAILED_ATTEMPTS - 1
  /\ ussdSessions[out.phone].state = BALANCE_PIN

\* C26: the verifier stored by a registration with PIN x accepts exactly
\* x for that subscriber: x submitted at BalancePin verifies (the request
\* goes on to the balance, failedAttempts stays 0), and a PIN step succeeds
\* only when the hash of (submitted PIN, subscriber) equals the stored
\* verifier, so another PIN for the subscriber, or the same PIN checked for
\* another subscriber, is rejected.
C26_VerifierRoundTrip ==
  [][\A r \in Reqs :
       LET p == reqs[r].phone
       IN /\ RegisterInsert(r) /\ ~users[p].registered /\ users'[p].registered
             => \A q \in Phones : \A pin \in PinInputs :
                  verifyPinPhone(pin, q, users'[p].pinHash)
                    <=> (q = p /\ pin = reqs[r].pin)
          /\ PinStep(r) /\ IsUssdPin(r)
             => /\ reqs'[r].pc = "balance"
                     <=> hashPinPhone(reqs[r].pin, p) = users[p].pinHash
                /\ reqs'[r].pc = "balance" /\ users[p].failedAttempts = 0
                     => users'[p].failedAttempts = 0
                /\ reqs'[r].pc # "balance"
                     => /\ users'[p].failedAttempts = users[p].failedAttempts + 1
                        /\ out'.resp.body \in {"Invalid PIN", "Account Locked"}
          /\ UssdGetBalance(r) /\ reqs[r].kind = "ussd_balance"
               /\ out'.resp.body # "Error checking balance"
             => /\ out'.resp.body = "Your SuiFlow Balance"
                /\ out'.resp.n \in Balances]_vars

\* The newcomer registered and then read the balance with the PIN chosen
\* at registration, at the first attempt.
C26_Witness ==
  /\ out.phone = "+300"
  /\ out.resp.body = "Your SuiFlow Balance"
  /\ users["+300"].registered
  /\ users["+300"].failedAttempts = 0
  /\ users["+300"].pinHash = hashPinPhone("4321", "+300")

\* The fields a step of the dialogue collects, by the state it is taken in
FieldsOfStep(state) ==
  CASE state = REGISTER_NAME -> {"fullName"}
    [] state = REGISTER_PIN -> {"pin"}
    [] state = SEND_PHONE -> {"receiverPhone"}
    [] state = SEND_AMOUNT -> {"amount"}
    [] OTHER -> {}

\* C27: the collected fields of a session only accumulate: a transition
\* writes only the field of the step being processed, and every field
\* collected in an earlier step keeps its value across every later
\* transition for as long as the session exists.
C27_FieldsAccumulate ==
  [][\A p \in Phones :
       ussdSessions[p] # NoSession /\ ussdSessions'[p] # NoSession
       => \A k \in DOMAIN EmptyData :
            k \notin FieldsOfStep(ussdSessions[p].state)
            => ussdSessions'[p].data[k] = ussdSessions[p].data[k]]_vars

\* The send dialogue has reached SendPin with the receiver and the amount
\* collected in the two steps before.
C27_Witness ==
  /\ ussdSessions["+300"].state = SEND_PIN
  /\ ussdSessions["+300"].data.receiverPhone = "+200"
  /\ ussdSessions["+300"].data.amount = Whole(2)
  /\ out.resp.type = "CON"

\* The request in slot r answers in this step for a transfer the ledger
\* has failed.
AnswersFailedTransfer(r) ==
  /\ reqs[r].pc = "record"
  /\ reqs[r].result.status = "failed"
  /\ out' # NoOut

\* C28: the text returned for a failed ledger transfer does not depend on
\* the external error: it is the same whatever error message the ledger
\* reported, and the message itself goes to the log and to the transaction
\* row only.
C28_FailureTextHidesCause ==
  [][\A r \in Reqs :
       AnswersFailedTransfer(r)
       => \A e \in LedgerErrors : out'.resp.detail # e]_vars

\* Requests of phone p the limiter let through in the last minute: at this
\* tick and at the RATE_LIMIT_WINDOW - 1 ticks before it
AdmittedInLastMinute(p) ==
  admittedAt[p][1] + admittedAt[p][2] + admittedAt[p][3]

IsRateLimitResp(resp) == resp = Resp("END", "Rate limit exceeded")

\* C29: the rate limiter lets through at most RATE_LIMIT_MAX_REQUESTS
\* requests of one phone number within any span of one minute; a request it
\* refuses gets the rate-limit response and does not reach the session
\* state machine: neither the session nor failedAttempts changes.
C29_AtMostTenPerMinute ==
  /\ [](\A p \in Phones : AdmittedInLastMinute(p) <= RATE_LIMIT_MAX_REQUESTS)
  /\ [][IsRateLimitResp(out'.resp)
          => /\ ussdSessions' = ussdSessions
             /\ users' = users
             /\ reqs' = reqs]_vars

\* C30: the frozen flag of a SuiFlowWallet changes only in a call that
\* presents the AdminCap: no call made without it freezes a wallet or
\* unfreezes a frozen one.
C30_FrozenFlagNeedsAdminCap ==
  [][\A w \in WalletIds :
       wallets'[w].is_frozen # wallets[w].is_frozen => lastCall'.cap]_vars

\* The call of this step is a balance operation with a frozen wallet among
\* its arguments.
BalanceOps == {"deposit", "withdraw", "internal_transfer"}

TouchesFrozen ==
  /\ lastCall'.function \in BalanceOps
  /\ \E k \in DOMAIN lastCall'.args : wallets[lastCall'.args[k]].is_frozen

\* The call of this step is a withdraw or an internal_transfer whose sender
\* is not the owner of the source wallet.
CallerNotOwner ==
  /\ lastCall'.function \in {"withdraw", "internal_transfer"}
  /\ lastCall'.sender # wallets[lastCall'.args[1]].owner_address

BalancesUnchanged ==
  \A w \in WalletIds : wallets'[w].balance = wallets[w].balance

\* C31 as stated: every balance operation on a frozen wallet aborts with
\* EWalletFrozen and leaves every balance unchanged; withdraw and
\* internal_transfer abort with ENotOwner unless the caller is the owner of
\* the source wallet.
C31_FrozenAbortsWithEWalletFrozen ==
  [][/\ TouchesFrozen
          => lastCall'.abort = "EWalletFrozen" /\ BalancesUnchanged
     /\ CallerNotOwner
          => lastCall'.abort = "ENotOwner" /\ BalancesUnchanged]_vars

\* C31, amended: every balance operation on a frozen wallet aborts and
\* leaves every balance unchanged; the abort code is ENotOwner when the
\* call is a withdraw or an internal_transfer by somebody who is not the
\* owner of the source wallet (frozen or not), and EWalletFrozen otherwise.
C31_FrozenWalletMovesNothing ==
  [][/\ TouchesFrozen
          => /\ BalancesUnchanged
             /\ lastCall'.abort = IF CallerNotOwner THEN "ENotOwner"
                                                    ELSE "EWalletFrozen"
     /\ CallerNotOwner
          => lastCall'.abort = "ENotOwner" /\ BalancesUnchanged]_vars

\* C31 witness: an internal_transfer by the owner of a funded source wallet
\* into a frozen wallet has aborted with EWalletFrozen.
C31_Witness ==
  /\ lastCall.function = "internal_transfer"
  /\ lastCall.abort = "EWalletFrozen"
  /\ wallets[lastCall.args[1]].balance > 0
  /\ ~wallets[lastCall.args[1]].is_frozen
  /\ wallets[lastCall.args[2]].is_frozen

\* The request in slot r has called the transfer primitive for the session
\* object that is in the map now.
DispatchedForSession(r) ==
  /\ reqs[r].kind = "ussd_send"
  /\ reqs[r].pc \in {"ledger", "record"}
  /\ reqs[r].attached

\* C32: one confirmed send dialogue dispatches at most one external
\* transfer: no two requests have called the transfer primitive for one and
\* the same session, also when the SendPin request with the correct PIN is
\* delivered again while the first one awaits the ledger.
C32_OneDispatchPerFlow ==
  \A r1, r2 \in Reqs :
    (/\ r1 # r2
     /\ DispatchedForSession(r1)
     /\ DispatchedForSession(r2))
    => reqs[r1].phone # reqs[r2].phone

\* The texts that tell the user the transfer failed
IsFailedTransferResp(resp) ==
  resp.body \in {"Transaction Failed", "Transaction failed",
                 "Transaction failed. Try again later"}

\* The request in slot r takes the step after a ledger call that succeeded.
RecordsSuccessfulTransfer(r) ==
  /\ reqs[r].pc = "record"
  /\ reqs[r].result.status = "success"
  /\ reqs'[r].pc = "idle"

\* C33: a transfer the ledger reported successful is never recorded as
\* Failed and never reported to the user as failed, also when persisting
\* the transaction record throws after the ledger call has succeeded.
C33_SuccessNeverReportedFailed ==
  [][\A r \in Reqs :
       RecordsSuccessfulTransfer(r)
       => /\ ~IsFailedTransferResp(out'.resp)
          /\ \A i \in 1..Len(transactions') :
               (i > Len(transactions) /\ transactions'[i].attempt = reqs[r].attempt)
               => transactions'[i].status # FAILED]_vars

\* The step answers the locked response and changes nothing but the
\* response: no PIN check follows, no counter is written.
RejectedAsLocked(r) ==
  /\ out'.resp = Resp("423", "Account is locked")
  /\ reqs'[r].pc = "idle"
  /\ users' = users
  /\ tokens' = tokens
  /\ transactions' = transactions
  /\ ussdSessions' = ussdSessions
  /\ nextAttempt' = nextAttempt

\* C34: POST /login for an account with failedAttempts >=
\* MAX_FAILED_ATTEMPTS returns the locked response before any PIN check and
\* leaves failedAttempts unchanged, for a correct and for an incorrect PIN
\* alike; checkUserStatus likewise rejects the authenticated request of
\* such an account without changing any state.
C34_LockedRejectedUnchanged ==
  [][\A r \in Reqs : \A p \in Phones :
       users[p].failedAttempts >= MAX_FAILED_ATTEMPTS
       => /\ \A pin \in PinInputs :
               Login(r, p, pin) => RejectedAsLocked(r)
          /\ \A to \in Phones : \A amount \in RestAmounts : \A pin \in PinInputs :
               TransactionNew(r, p, to, amount, pin) => RejectedAsLocked(r)]_vars

\* C34 witness: a subscriber who holds a token and whose account is locked
\* has just been answered with the locked response.
C34_Witness ==
  /\ out.resp = Resp("423", "Account is locked")
  /\ out.phone \in tokens
  /\ users[out.phone].failedAttempts >= MAX_FAILED_ATTEMPTS

\* The states of the send and the balance dialogue
AccountStates == {SEND_PHONE, SEND_AMOUNT, SEND_PIN, BALANCE_PIN}

\* C35: whenever a session is in SendRecipient, SendAmount, SendPin or
\* BalancePin, an account exists for that subscriber: a subscriber without
\* an account reaches only MainMenu and the registration states.
C35_SendStatesNeedAccount ==
  \A p \in Phones :
    ussdSessions[p].state \in AccountStates => users[p].registered

\* C35 witness: a subscriber without an account has chosen an option of
\* the account menu and is still at the main menu.
C35_Witness ==
  /\ ~users["+300"].registered
  /\ out = [phone |-> "+300", resp |-> Resp("CON", "Invalid option")]
  /\ ussdSessions["+300"].state = MAIN_MENU

\* The names of NameInputs that are at least two characters of letters
\* and spaces, and the PINs of PinInputs that are four digits
IsValidName(name) == name = "Jane Doe"
IsValidPin(pin) == pin \in {"1234", "4321"}

\* C36: whenever a session is in SendPin, its fields hold a receiverPhone
\* that differs from the subscriber and belongs to an account, and an amount
\* between MIN_AMOUNT and MAX_AMOUNT; whenever a session is in
\* RegisterConfirmPin, they hold a valid name and a PIN of four digits.
C36_CollectedFieldsValid ==
  \A p \in Phones :
    /\ ussdSessions[p].state = SEND_PIN
         => /\ ussdSessions[p].data.receiverPhone # p
            /\ ussdSessions[p].data.receiverPhone \in Phones
            /\ users[ussdSessions[p].data.receiverPhone].registered
            /\ ~Less(ussdSessions[p].data.amount, MIN_AMOUNT)
            /\ ~Less(Whole(MAX_AMOUNT), ussdSessions[p].data.amount)
            /\ ~IsNaN(ussdSessions[p].data.amount)
    /\ ussdSessions[p].state = REGISTER_CONFIRM_PIN
         => /\ IsValidName(ussdSessions[p].data.fullName)
            /\ IsValidPin(ussdSessions[p].data.pin)

\* C36 witness: the subscriber who registered as Jane Doe has reached
\* SendPin with the largest amount there is, after an amount above it was
\* refused.
C36_Witness ==
  /\ ussdSessions["+300"].state = SEND_PIN
  /\ ussdSessions["+300"].data.amount = Whole(MAX_AMOUNT)
  /\ ussdSessions["+300"].data.receiverPhone = "+100"
  /\ users["+300"].fullName = "Jane Doe"

\* The funding of the account registered by the request in slot r is
\* under way or has settled.
FundingOf(r) == reqs[r].pc \in {"reg_fund", "reg_funded"}

\* The account the request in slot r has created is in the table.
AccountRemains(r) ==
  /\ users[reqs[r].phone].registered
  /\ users[reqs[r].phone].suiAddress = reqs[r].address
  /\ users[reqs[r].phone].fullName = reqs[r].data.fullName

\* C37: the outcome of a registration does not depend on the outcome of the
\* initial funding transfer: while the funding is under way and after it
\* has failed the account created by the registration is in the table; over
\* USSD the success response is sent when the funding is started, over REST
\* the response after a failed funding is the success response.
C37_FundingFailureKeepsRegistration ==
  /\ [](\A r \in Reqs : FundingOf(r) => AccountRemains(r))
  /\ [][\A r \in Reqs :
          /\ (reqs[r].kind = "ussd_register" /\ reqs'[r].pc = "reg_fund")
               => /\ out'.resp.type = "END"
                  /\ out'.resp.body = "Registration Successful"
                  /\ out'.phone = reqs[r].phone
          /\ (reqs[r].pc = "reg_funded" /\ reqs'[r].pc = "idle")
               => /\ users' = users
                  /\ IF reqs[r].kind = "rest_register"
                     THEN out' = [phone |-> reqs[r].phone,
                                  resp |-> RespD("201", "User registered successfully",
                                                 reqs[r].address)]
                     ELSE out' = NoOut]_vars

\* C37 witness: the funding of an account registered over REST has failed;
\* the account is in the table and the response is still to be sent.
C37_Witness ==
  \E r \in Reqs :
    /\ reqs[r].pc = "reg_funded"
    /\ reqs[r].kind = "rest_register"
    /\ reqs[r].result.status = "failed"
    /\ AccountRemains(r)

\* The minutes at which a session can be touched for the last time and
\* still be idle for more than SESSION_TIMEOUT before the clock stops
SweepableSince == {t \in 0..MaxNow : t + SESSION_TIMEOUT < MaxNow}

\* C38: every session is eventually removed: a session that is touched by
\* no further request is deleted by a run of the sweep once it has been
\* idle for more than SESSION_TIMEOUT, so a session is in the store either
\* not for ever or because a request has touched it again.
C38_AbandonedSessionRemoved ==
  \A p \in Phones : \A t \in SweepableSince :
    (ussdSessions[p] # NoSession /\ ussdSessions[p].lastActivity = t)
      ~> (ussdSessions[p] = NoSession \/ ussdSessions[p].lastActivity > t)

\* C38 witness: a dialogue left at the recipient prompt has been idle for
\* more than SESSION_TIMEOUT and the sweep of this minute is about to run.
C38_Witness ==
  /\ ussdSessions["+100"].state = SEND_PHONE
  /\ now - ussdSessions["+100"].lastActivity > SESSION_TIMEOUT
  /\ ~swept

\* The step handles a request of subscriber p: the request arrives in slot
\* r, or it is in slot r and continues after an await.
HandlesRequestOf(r, p) ==
  \/ ArrivePair(r, p)
  \/ reqs[r].phone = p /\ ContinueUssd(r)

\* C39: handling a request of subscriber A never creates, changes or
\* deletes the session of another subscriber B and never changes B's
\* failedAttempts, however the requests of different subscribers interleave
\* and also when A sends to B.
C39_OtherSubscriberUntouched ==
  [][\A r \in Reqs : \A a \in Pair :
       HandlesRequestOf(r, a)
       => \A b \in Phones \ {a} :
            /\ ussdSessions'[b] = ussdSessions[b]
            /\ users'[b].failedAttempts = users[b].failedAttempts]_vars

\* C39 witness: +100 has sent to +200 while a dialogue of +200 was open and
\* +200 had mistyped the PIN once; both are as they were.
C39_Witness ==
  /\ Len(transactions) = 1
  /\ transactions[1].senderPhone = "+100"
  /\ transactions[1].receiverPhone = "+200"
  /\ out.phone = "+100"
  /\ ussdSessions["+200"].state = BALANCE_PIN
  /\ users["+200"].failedAttempts = 1

\* A result of the shape both transfer primitives promise: success with a
\* digest, or failed with no digest and an error text.
IsTransferResult(res) ==
  \/ res.status = "success" /\ res.digest # 0
  \/ res.status = "failed" /\ res.digest = 0 /\ res.error # ""

\* C40: a call of sendSui or internalTransfer never throws to its caller and
\* always returns the same shape: whenever a request awaiting the ledger moves
\* on, it continues at the statement after the call (never in the caller's
\* catch block) holding either status 'success' with a non-null digest or
\* status 'failed' with a null digest and a non-null error.
C40_PrimitivesReturnResult ==
  [][\A r \in Reqs :
       (reqs[r].pc = "ledger" /\ reqs'[r].pc # "ledger")
         => /\ reqs'[r].pc = "record"
            /\ reqs'[r].via = reqs[r].via
            /\ IsTransferResult(reqs'[r].result)]_vars

\* C40 witness: a call of internalTransfer has returned a failed result to
\* the REST handler.
C40_Witness ==
  \E r \in Reqs :
    /\ reqs[r].pc = "record"
    /\ reqs[r].via = "internalTransfer"
    /\ reqs[r].result.status = "failed"
    /\ reqs[r].result.error # ""

====
